---- MODULE Spec2Model ----
(***************************************************************************)
(* A model of pyvcd's VCDWriter (src/vcd/writer.py): the phase state       *)
(* machine (registering -> dumping/suspended -> closed), the value-change  *)
(* deduplication and the per-kind value formatting.                        *)
(*                                                                         *)
(* Text is a sequence of one-character strings.  The output sink is the    *)
(* sequence of lines written so far.  Python values are tagged records     *)
(* (int/bool, str, None); timestamps passed by the caller are counted in   *)
(* half units so that a float timestamp n + 0.5 is an input, and int() is  *)
(* the truncation the code applies when it stores one.                     *)
(***************************************************************************)
EXTENDS Integers, Sequences, FiniteSets, TLC

\* ------------------------------------------------------------------ bounds

\* Largest timestamp (in whole units) a caller passes.
MaxTime == 3

\* Largest number of variables registered in one writer.
MaxVars == 2

\* Largest number of calls made on one writer, registrations and set_scope_type aside.
MaxCalls == 3

\* Largest number of variables registered in one writer when the identifier
\* codes are followed past one hexadecimal digit's decimal range.
MaxIds == 11

\* Largest width of a vector, and of a field of a compound vector, that is
\* formatted.
MaxWidth == 3

\* ------------------------------------------------------------ Python values

\* `None`, as a timestamp argument and as _last_dumped_ts.
NoneTs == -1

IntV(n) == [k |-> "int", i |-> n, s |-> <<>>]
StrV(t) == [k |-> "str", i |-> 0, s |-> t]
NoneV == [k |-> "none", i |-> 0, s |-> <<>>]
\* A sequence of values, the value of a compound vector.
TupleV(vs) == [k |-> "tuple", i |-> 0, s |-> vs]

\* Python's `a != b` on these values: an int never equals a str or None.
PyNe(a, b) == a # b

\* Python truthiness (`if value:`).
Truthy(v) ==
    CASE v.k = "int" -> v.i # 0
      [] v.k = "str" -> v.s # <<>>
      [] OTHER -> FALSE

\* int(timestamp) of a timestamp given in half units: truncation towards zero.
IntOf(tv) == IF tv >= 0 THEN tv \div 2 ELSE -((-tv) \div 2)

\* timestamp < n and timestamp > n for a timestamp in half units.
TvLessOffByOne(tv, n) == tv < 2 * (n - 1)
TvLess(tv, n) == tv < 2 * n
TvGreaterOrEqual(tv, n) == tv >= 2 * n
TvGreater(tv, n) == tv > 2 * n

\* ------------------------------------------------------------------- text

Digit(d) == <<"0", "1", "2", "3", "4", "5", "6", "7", "8", "9",
              "a", "b", "c", "d", "e", "f">>[d + 1]

RECURSIVE RenderReversed(_, _)
\* The digits of n >= 0 in the given base, least significant first.
RenderReversed(n, base) ==
    IF n < base THEN <<Digit(n)>>
    ELSE <<Digit(n % base)>> \o RenderReversed(n \div base, base)

RECURSIVE Render(_, _)
\* The digits of n >= 0 in the given base, most significant first.
Render(n, base) ==
    IF n < base THEN <<Digit(n)>>
    ELSE Render(n \div base, base) \o <<Digit(n % base)>>

\* format(n, 'd') whatever the format asked for.
FormatIntDecimal(n, base) ==
    IF n < 0 THEN <<"-">> \o Render(-n, 10) ELSE Render(n, 10)

\* format(n, 'b') and format(n, 'x'): a minus sign, then the magnitude.
FormatInt(n, base) ==
    IF n < 0 THEN <<"-">> \o Render(-n, base) ELSE Render(n, base)

RECURSIVE Pow2(_)
Pow2(n) == IF n = 0 THEN 1 ELSE 2 * Pow2(n - 1)

Ok(t) == [err |-> "", text |-> t]
Raise(e) == [err |-> e, text |-> <<>>]

\* ------------------------------------------------------- value formatting

ScalarChars == {"0", "1", "x", "z", "X", "Z"}
VectorChars == ScalarChars \cup {"-"}

\* _format_scalar_value with a range check that is symmetric about zero.
format_scalar_value_symmetric(value, size, check) ==
    IF value.k = "int" THEN
        LET max_val == Pow2(size) IN
        IF check /\ (-value.i >= max_val \div 2 \/ value.i >= max_val)
        THEN Raise("ValueError")
        ELSE Ok(FormatInt(IF value.i < 0 THEN value.i + max_val ELSE value.i, 2))
    ELSE IF value.k = "none" THEN Ok(<<"z">>)
    ELSE IF check /\ (\/ value.k # "str"
                      \/ Len(value.s) > size
                      \/ \E j \in 1..Len(value.s) : value.s[j] \notin {"0", "1", "x", "z", "X", "Z", "-"})
         THEN Raise("ValueError")
         ELSE Ok(value.s)

format_scalar_value(value, size, check) ==
    IF value.k = "int" THEN
        LET max_val == Pow2(size) IN
        IF check /\ (-value.i > max_val \div 2 \/ value.i >= max_val)
        THEN Raise("ValueError")
        ELSE Ok(FormatInt(IF value.i < 0 THEN value.i + max_val ELSE value.i, 2))
    ELSE IF value.k = "none" THEN Ok(<<"z">>)
    ELSE IF check /\ (\/ value.k # "str"
                      \/ Len(value.s) > size
                      \/ \E j \in 1..Len(value.s) : value.s[j] \notin VectorChars)
         THEN Raise("ValueError")
         ELSE Ok(value.s)

ScalarVariable_format_value(var, value, check) ==
    IF value.k = "str" THEN
        IF check /\ (Len(value.s) # 1 \/ \E j \in 1..Len(value.s) : value.s[j] \notin ScalarChars)
        THEN Raise("ValueError")
        ELSE Ok(value.s \o var.ident)
    ELSE IF value.k = "none" THEN Ok(<<"z">> \o var.ident)
    ELSE IF Truthy(value) THEN Ok(<<"1">> \o var.ident)
    ELSE Ok(<<"0">> \o var.ident)

EventVariable_format_value(var, value, check) ==
    IF Truthy(value) THEN Ok(<<"1">> \o var.ident) ELSE Raise("ValueError")

\* A real whose value is rendered without a space before the identifier code.
RealVariable_format_value_unspaced(var, value, check) ==
    IF value.k = "int" THEN Ok(<<"r">> \o FormatInt(value.i, 10) \o var.ident)
    ELSE IF check \/ value.k = "str" THEN Raise("ValueError")
    ELSE Raise("TypeError")

\* 'r{:.16g} {}'.format(value, ident): an int renders as its decimal digits;
\* a str has no 'g' format (ValueError) and None no format at all (TypeError).
RealVariable_format_value(var, value, check) ==
    IF value.k = "int" THEN Ok(<<"r">> \o FormatInt(value.i, 10) \o <<" ">> \o var.ident)
    ELSE IF check \/ value.k = "str" THEN Raise("ValueError")
    ELSE Raise("TypeError")

\* 's{} {}'.format(value, ident); with checking off an int is rendered by str().
StringVariable_format_value(var, value, check) ==
    LET v == IF value.k = "none" THEN StrV(<<>>) ELSE value IN
    IF check /\ (v.k # "str" \/ \E j \in 1..Len(v.s) : v.s[j] = " ")
    THEN Raise("ValueError")
    ELSE Ok(<<"s">> \o (IF v.k = "str" THEN v.s ELSE FormatInt(v.i, 10)) \o <<" ">> \o var.ident)

VectorVariable_format_value(var, value, check) ==
    LET r == format_scalar_value(value, var.size, check) IN
    IF r.err # "" THEN r ELSE Ok(<<"b">> \o r.text \o <<" ">> \o var.ident)

\* ''.join(vstr_list)
RECURSIVE Join(_)
Join(strs) == IF strs = <<>> THEN <<>> ELSE Head(strs) \o Join(Tail(strs))

\* `extendc` keeping the leading character whatever it is.
ExtendCharSame(leftc) == leftc

\* `extendc = '0' if leftc == '1' else leftc`
ExtendChar(leftc) == IF leftc = "1" THEN "0" ELSE leftc

\* The field is put in front of the string built so far, the fields to its
\* right extended to their full width: it is more than one character, or the
\* left-extension of the final string would not render it.
FieldIsWritten(vstr, leftc, rightc) ==
    \/ Len(vstr) > 1
    \/ /\ (rightc # leftc \/ leftc = "1")
       /\ (rightc # "0" \/ leftc # "1")

RECURSIVE CompoundLoop(_, _, _, _, _, _, _)
\* The loop of CompoundVectorVariable.format_value from field j down to the
\* first, the fields to the right of j done. Indexing an empty string raises
\* an index error.
CompoundLoop(var, value, check, j, vstr_list, vstr_len, size_sum) ==
    IF j = 0 THEN Ok(<<"b">> \o Join(vstr_list) \o <<" ">> \o var.ident)
    ELSE
    LET r == format_scalar_value(value.s[j], var.size[j], check)
        vstr == r.text
        extend_size == size_sum - vstr_len
    IN  IF r.err # "" THEN r
        ELSE IF vstr_list = <<>>
        THEN CompoundLoop(var, value, check, j - 1, <<vstr>>, vstr_len + Len(vstr),
                          size_sum + var.size[j])
        ELSE IF vstr_list[1] = <<>> \/ vstr = <<>> THEN Raise("IndexError")
        ELSE IF FieldIsWritten(vstr, vstr_list[1][1], vstr[1])
        THEN CompoundLoop(var, value, check, j - 1,
                          <<vstr, [m \in 1..extend_size |-> ExtendChar(vstr_list[1][1])]>>
                              \o vstr_list,
                          vstr_len + extend_size + Len(vstr), size_sum + var.size[j])
        ELSE CompoundLoop(var, value, check, j - 1, vstr_list, vstr_len,
                          size_sum + var.size[j])

CompoundVectorVariable_format_value(var, value, check) ==
    IF Len(value.s) # Len(var.size) THEN Raise("ValueError")
    ELSE CompoundLoop(var, value, check, Len(var.size), <<>>, 0, 0)

\* Variable.format_value, dispatched on the variable's class.
format_value(var, value, check) ==
    CASE var.cls = "ScalarVariable" -> ScalarVariable_format_value(var, value, check)
      [] var.cls = "EventVariable" -> EventVariable_format_value(var, value, check)
      [] var.cls = "RealVariable" -> RealVariable_format_value(var, value, check)
      [] var.cls = "StringVariable" -> StringVariable_format_value(var, value, check)
      [] var.cls = "CompoundVectorVariable" ->
             CompoundVectorVariable_format_value(var, value, check)
      [] OTHER -> VectorVariable_format_value(var, value, check)

\* Variable.dump: None for an event, else the current value formatted.
dump(var, check) ==
    IF var.cls = "EventVariable" THEN Ok(<<>>) ELSE format_value(var, var.value, check)

\* dump_off() forcing an unknown value on every variable but reals and events.
dump_off_str_but_real_and_event(var) ==
    IF var.cls \in {"RealVariable", "EventVariable"} THEN <<>> ELSE <<"x">> \o var.ident

\* Variable.dump_off: the forced unknown value; None (here empty) for the
\* kinds that have none.
dump_off_str(var) ==
    CASE var.cls = "ScalarVariable" -> <<"x">> \o var.ident
      [] var.cls = "VectorVariable" -> VectorVariable_format_value(var, StrV(<<"x">>), FALSE).text
      [] OTHER -> <<>>

\* ------------------------------------------------------------ output lines

Line(k, t, s, id) == [k |-> k, t |-> t, s |-> s, id |-> id]

\* '#<timestamp>'
TsLine(t) == Line("ts", t, <<>>, <<>>)
\* a value-change line: the text format_value returned, and the identifier
\* code of the variable it was written for
ValLine(text, ident) == Line("val", 0, text, ident)
\* '$dumpvars', '$dumpoff', '$dumpon', '$end', '$upscope $end', '$enddefinitions $end'
KwLine(w) == Line("kw", 0, <<w>>, <<>>)
\* '<keyword> <value> $end' of the header keywords
HdrLine(kw, value) == Line("hdr", 0, <<kw, value>>, <<>>)
\* '$scope <type> <name> $end'
ScopeLine(scope_type, name) == Line("scope", 0, <<scope_type, name>>, <<>>)
\* '$var <var_type> <size> <ident> <name> $end'
VarLine(var_type, size, ident, name) == Line("var", size, <<var_type, name>>, ident)

\* ------------------------------------------------------------ writer state

VARIABLES
    check_values,      \* _check_values
    header_keywords,   \* _header_keywords: the non-empty ones, keyword -> value
    registering,       \* _registering
    closed,            \* _closed
    dumping,           \* _dumping
    next_var_id,       \* _next_var_id
    scope_var_strs,    \* _scope_var_strs: scope tuple -> list of $var lines
    scope_var_names,   \* _scope_var_names: scope tuple -> set of names
    scope_types,       \* _scope_types: scope tuple -> scope type
    vars,              \* _vars: the Variable objects, in registration order
    timestamp,         \* _timestamp
    last_dumped_ts,    \* _last_dumped_ts
    ofile,             \* the lines written to the sink
    last,              \* history: the last call, its arguments and how it ended
    init_timestamp,    \* history: the constructor's init_timestamp
    ncalls,            \* history: the number of calls made, registrations and set_scope_type aside
    gen                \* the generator tokenize() returned, if it was called

vars_all == <<check_values, header_keywords, registering, closed, dumping, next_var_id,
              scope_var_strs, scope_var_names, scope_types, vars, timestamp,
              last_dumped_ts, ofile, last, init_timestamp, ncalls, gen>>

\* The writer object as one record, so that the methods compose as functions.
\* `err` is the exception a method raised ("" for none).
Self == [check_values |-> check_values, header_keywords |-> header_keywords,
         registering |-> registering, closed |-> closed, dumping |-> dumping,
         next_var_id |-> next_var_id, scope_var_strs |-> scope_var_strs,
         scope_var_names |-> scope_var_names, scope_types |-> scope_types,
         vars |-> vars, timestamp |-> timestamp, last_dumped_ts |-> last_dumped_ts,
         ofile |-> ofile, err |-> ""]

Store(w) ==
    /\ check_values' = w.check_values
    /\ header_keywords' = w.header_keywords
    /\ registering' = w.registering
    /\ closed' = w.closed
    /\ dumping' = w.dumping
    /\ next_var_id' = w.next_var_id
    /\ scope_var_strs' = w.scope_var_strs
    /\ scope_var_names' = w.scope_var_names
    /\ scope_types' = w.scope_types
    /\ vars' = w.vars
    /\ timestamp' = w.timestamp
    /\ last_dumped_ts' = w.last_dumped_ts
    /\ ofile' = w.ofile

Raised(w, e) == [w EXCEPT !.err = e]
Write(w, lines) == [w EXCEPT !.ofile = @ \o lines]

\* A Python dict as a function; d.get(k, default) and d[k] = v.
Get(d, k, default) == IF k \in DOMAIN d THEN d[k] ELSE default
Put(d, k, v) == [x \in (DOMAIN d) \cup {k} |-> IF x = k THEN v ELSE d[x]]
EmptyDict == [x \in {} |-> 0]

\* -------------------------------------------------------- header generation

\* The scope names callers use, in Python's string order.
NameOrder == <<"a", "b">>
StrRank(x) == CHOOSE i \in 1..Len(NameOrder) : NameOrder[i] = x

Min(a, b) == IF a < b THEN a ELSE b
Max(a, b) == IF a < b THEN b ELSE a

\* Python's tuple order on scope tuples: the first differing name decides, and
\* a proper prefix comes first.
TupleLess(x, y) ==
    \/ \E i \in 1..Min(Len(x), Len(y)) :
          /\ \A j \in 1..(i - 1) : x[j] = y[j]
          /\ StrRank(x[i]) < StrRank(y[i])
    \/ /\ Len(x) < Len(y)
       /\ \A j \in 1..Len(x) : x[j] = y[j]

RECURSIVE Sorted(_)
\* sorted(S) for a set of scope tuples.
Sorted(S) ==
    IF S = {} THEN <<>>
    ELSE LET m == CHOOSE x \in S : \A y \in S \ {x} : TupleLess(x, y)
         IN  <<m>> \o Sorted(S \ {m})

\* _gen_header without the common prefix: every scope is opened from the root.
FirstDiffAtRoot(prev_scope, scope) == IF prev_scope = scope THEN 0 ELSE 1

\* The index (from 1) of the first position where zip_longest(prev_scope, scope)
\* differs; 0 when the tuples are equal.
FirstDiff(prev_scope, scope) ==
    LET n == Max(Len(prev_scope), Len(scope))
        D == {i \in 1..n : \/ i > Len(prev_scope)
                           \/ i > Len(scope)
                           \/ prev_scope[i] # scope[i]}
    IN  IF D = {} THEN 0 ELSE CHOOSE i \in D : \A j \in D : i <= j

\* A pass of the scope loop that looks up, for every scope it opens, the type
\* set for the whole path of the variables' scope.
ScopeBlockLeafTyped(w, prev_scope, scope, default_scope_type) ==
    LET i == FirstDiff(prev_scope, scope) IN
    [j \in 1..(Len(prev_scope) - i + 1) |-> KwLine("$upscope")]
    \o [j \in 1..(Len(scope) - i + 1) |->
           ScopeLine(Get(w.scope_types, scope, default_scope_type), scope[i + j - 1])]
    \o w.scope_var_strs[scope]

\* The lines of one pass of the scope loop of _gen_header: close the scopes
\* beyond the common prefix, open the new ones, then the scope's $var lines.
ScopeBlock(w, prev_scope, scope, default_scope_type) ==
    LET i == FirstDiff(prev_scope, scope) IN
    [j \in 1..(Len(prev_scope) - i + 1) |-> KwLine("$upscope")]
    \o [j \in 1..(Len(scope) - i + 1) |->
           ScopeLine(Get(w.scope_types, SubSeq(scope, 1, i + j - 1), default_scope_type),
                     scope[i + j - 1])]
    \o w.scope_var_strs[scope]

RECURSIVE ScopeBlocksUnclosed(_, _, _, _)
\* The scope blocks of a header that leaves the scopes of the last block open.
ScopeBlocksUnclosed(w, prev_scope, scopes, default_scope_type) ==
    IF scopes = <<>> THEN <<>>
    ELSE ScopeBlock(w, prev_scope, Head(scopes), default_scope_type)
         \o ScopeBlocksUnclosed(w, Head(scopes), Tail(scopes), default_scope_type)

RECURSIVE ScopeBlocks(_, _, _, _)
ScopeBlocks(w, prev_scope, scopes, default_scope_type) ==
    IF scopes = <<>> THEN [j \in 1..Len(prev_scope) |-> KwLine("$upscope")]
    ELSE ScopeBlock(w, prev_scope, Head(scopes), default_scope_type)
         \o ScopeBlocks(w, Head(scopes), Tail(scopes), default_scope_type)

\* The header keywords in sorted order.
KeywordOrder == <<"$comment", "$date", "$timescale", "$version">>

gen_header(w) ==
    SelectSeq([j \in 1..Len(KeywordOrder) |->
                  IF KeywordOrder[j] \in DOMAIN w.header_keywords
                  THEN HdrLine(KeywordOrder[j], w.header_keywords[KeywordOrder[j]])
                  ELSE KwLine("")],
              LAMBDA l : l.k = "hdr")
    \o ScopeBlocks(w, <<>>, Sorted(DOMAIN w.scope_var_strs), "module")
    \o <<KwLine("$enddefinitions")>>

\* ------------------------------------------------------- writer internals

\* _set_timestamp() without its out-of-order check.
set_timestamp_unchecked(w, ts) ==
    IF ts # 2 * w.timestamp THEN [w EXCEPT !.timestamp = IntOf(ts)] ELSE w

set_timestamp(w, ts) ==
    IF TvLess(ts, w.timestamp) THEN Raised(w, "VCDPhaseError")
    ELSE IF TvGreater(ts, w.timestamp) THEN [w EXCEPT !.timestamp = IntOf(ts)]
    ELSE w

\* _dump_timestamp() writing the timestamp whether or not it was the last one
\* written.
dump_timestamp_always(w) ==
    Write([w EXCEPT !.last_dumped_ts = w.timestamp], <<TsLine(w.timestamp)>>)

\* _dump_timestamp() writing a new timestamp while dumping is suspended too.
dump_timestamp_suspended(w) ==
    IF w.timestamp # w.last_dumped_ts
    THEN Write([w EXCEPT !.last_dumped_ts = w.timestamp], <<TsLine(w.timestamp)>>)
    ELSE w

dump_timestamp(w) ==
    IF (w.timestamp # w.last_dumped_ts /\ w.dumping) \/ w.last_dumped_ts = NoneTs
    THEN Write([w EXCEPT !.last_dumped_ts = w.timestamp], <<TsLine(w.timestamp)>>)
    ELSE w

RECURSIVE DumpEach(_, _)
\* One pass of the loop of _dump_values, r being var.dump() of variable i: a
\* line if it is not empty; an exception from format_value ends the loop.
DumpOne(w, i, r) ==
    IF r.err # "" THEN Raised(w, r.err)
    ELSE DumpEach(IF r.text # <<>> THEN Write(w, <<ValLine(r.text, w.vars[i].ident)>>) ELSE w,
                  i + 1)

\* The loop of _dump_values from variable i on.
DumpEach(w, i) ==
    IF i > Len(w.vars) THEN w
    ELSE DumpOne(w, i, dump(w.vars[i], w.check_values))

\* _dump_values leaving its block without the '$end'.
EndBlockMissing(d) == d

\* The '$end' that closes a block, unless the loop raised.
EndBlock(d) == IF d.err # "" THEN d ELSE Write(d, <<KwLine("$end")>>)

dump_values(w, keyword) == EndBlock(DumpEach(Write(w, <<KwLine(keyword)>>), 1))

\* _finalize_registration writing the $dumpvars block of a writer without
\* variables too.
DumpVarsAlways(h) == dump_values(dump_timestamp(h), "$dumpvars")

\* _finalize_registration after the header is written: the initial $dumpvars
\* block if there are variables.
DumpVars(h) ==
    IF h.vars # <<>> THEN dump_values(dump_timestamp(h), "$dumpvars") ELSE h

\* _finalize_registration after its writes: the end of the registration phase.
EndRegistration(d) ==
    IF d.err # "" THEN d
    ELSE [d EXCEPT !.registering = FALSE,
                   !.header_keywords = EmptyDict,
                   !.scope_types = EmptyDict,
                   !.scope_var_names = EmptyDict]

finalize_registration(w) ==
    EndRegistration(DumpVars(Write([w EXCEPT !.scope_var_strs = EmptyDict], gen_header(w))))

\* `if self._registering: self._finalize_registration()`
Finalized(w) == IF w.registering THEN finalize_registration(w) ELSE w

\* ------------------------------------------------------------- the methods

VAR_TYPES == {"event", "integer", "parameter", "real", "realtime", "reg", "supply0",
              "supply1", "time", "tri", "triand", "trior", "trireg", "tri0", "tri1",
              "wand", "wire", "wor", "string"}

SCOPE_TYPES == {"begin", "fork", "function", "module", "task"}

\* `size=None`
NoSize == 0

Variable(ident, type, size, init, cls) ==
    [ident |-> ident, type |-> type, size |-> size, value |-> init, cls |-> cls]

\* The Variable object register_var constructs: the class chosen from the
\* type and the size, and the default initial value of that class.  `ident`
\* is an optional text (<<>> for None, <<text>> otherwise), `init` a value.
NewVariable(ident, var_type, size, init) ==
    IF var_type = "string"
    THEN Variable(ident, var_type, size, IF init = NoneV THEN StrV(<<>>) ELSE init, "StringVariable")
    ELSE IF var_type = "event"
    THEN Variable(ident, var_type, size, IF init = NoneV THEN IntV(1) ELSE init, "EventVariable")
    ELSE IF var_type = "real"
    THEN Variable(ident, var_type, size, IF init = NoneV THEN IntV(0) ELSE init, "RealVariable")
    ELSE IF size = 1
    THEN Variable(ident, var_type, size, IF init = NoneV THEN StrV(<<"x">>) ELSE init, "ScalarVariable")
    ELSE Variable(ident, var_type, size, IF init = NoneV THEN StrV(<<"x">>) ELSE init, "VectorVariable")

\* register_var() counting the identifier before it checks the name, the size
\* and the initial value.
register_var_counting(w, scope, name, var_type, size, init, ident) ==
    IF w.closed THEN Raised(w, "VCDPhaseError")
    ELSE IF ~w.registering THEN Raised(w, "VCDPhaseError")
    ELSE IF var_type \notin VAR_TYPES THEN Raised(w, "ValueError")
    ELSE
    LET scope_tuple == scope
        \* _scope_var_names.setdefault(scope_tuple, set())
        w1 == [w EXCEPT !.scope_var_names =
                  IF scope_tuple \in DOMAIN @ THEN @ ELSE Put(@, scope_tuple, {}),
                         !.next_var_id = @ + 1]
        the_ident == IF ident = <<>> THEN FormatInt(w.next_var_id, 16) ELSE ident[1]
        the_size == IF size # NoSize THEN size
                    ELSE IF var_type \in {"integer", "real", "realtime"} THEN 64
                    ELSE IF var_type \in {"event", "string"} THEN 1
                    ELSE NoSize
        var == NewVariable(the_ident, var_type, the_size, init)
        var_str == VarLine(var_type, the_size, the_ident, name)
        r == format_value(var, var.value, TRUE)
    IN  IF name \in w1.scope_var_names[scope_tuple] THEN Raised(w1, "KeyError")
        ELSE IF the_size = NoSize THEN Raised(w1, "ValueError")
        ELSE IF r.err # "" THEN Raised(w1, r.err)
        ELSE [w1 EXCEPT !.vars = Append(@, var),
                        !.scope_var_strs =
                            Put(@, scope_tuple, Get(@, scope_tuple, <<>>) \o <<var_str>>),
                        !.scope_var_names =
                            Put(@, scope_tuple, @[scope_tuple] \cup {name})]

register_var(w, scope, name, var_type, size, init, ident) ==
    IF w.closed THEN Raised(w, "VCDPhaseError")
    ELSE IF ~w.registering THEN Raised(w, "VCDPhaseError")
    ELSE IF var_type \notin VAR_TYPES THEN Raised(w, "ValueError")
    ELSE
    LET scope_tuple == scope
        \* _scope_var_names.setdefault(scope_tuple, set())
        w1 == [w EXCEPT !.scope_var_names =
                  IF scope_tuple \in DOMAIN @ THEN @ ELSE Put(@, scope_tuple, {})]
        the_ident == IF ident = <<>> THEN FormatInt(w.next_var_id, 16) ELSE ident[1]
        the_size == IF size # NoSize THEN size
                    ELSE IF var_type \in {"integer", "real", "realtime"} THEN 64
                    ELSE IF var_type \in {"event", "string"} THEN 1
                    ELSE NoSize
        var == NewVariable(the_ident, var_type, the_size, init)
        var_str == VarLine(var_type, the_size, the_ident, name)
        r == format_value(var, var.value, TRUE)
    IN  IF name \in w1.scope_var_names[scope_tuple] THEN Raised(w1, "KeyError")
        ELSE IF the_size = NoSize THEN Raised(w1, "ValueError")
        ELSE IF r.err # "" THEN Raised(w1, r.err)
        ELSE [w1 EXCEPT !.vars = Append(@, var),
                        !.next_var_id = @ + 1,
                        !.scope_var_strs =
                            Put(@, scope_tuple, Get(@, scope_tuple, <<>>) \o <<var_str>>),
                        !.scope_var_names =
                            Put(@, scope_tuple, @[scope_tuple] \cup {name})]

\* `scope_type` "None" stands for Python's None, which the check lets through.
set_scope_type(w, scope, scope_type) ==
    IF scope_type # "None" /\ scope_type \notin SCOPE_TYPES THEN Raised(w, "ValueError")
    ELSE [w EXCEPT !.scope_types = Put(@, scope, scope_type)]

\* dump_off from its write of '$dumpoff' on.
dump_off_block(d) ==
    [Write(d, SelectSeq([i \in 1..Len(d.vars) |->
                            ValLine(dump_off_str(d.vars[i]), d.vars[i].ident)],
                        LAMBDA l : l.s # <<>>)
              \o <<KwLine("$end")>>)
        EXCEPT !.dumping = FALSE]

\* dump_off writing its block whether or not dumping is suspended already.
dump_off_timed_again(t) ==
    IF t.err # "" THEN t
    ELSE dump_off_block(Write(dump_timestamp(t), <<KwLine("$dumpoff")>>))

\* dump_off after _set_timestamp.
dump_off_timed(t) ==
    IF t.err # "" THEN t
    ELSE IF ~t.dumping THEN t
    ELSE dump_off_block(Write(dump_timestamp(t), <<KwLine("$dumpoff")>>))

\* dump_off after the finalization, if any.
dump_off_finalized(f, ts) ==
    IF f.err # "" THEN f ELSE dump_off_timed(set_timestamp(f, ts))

dump_off(w, ts) == dump_off_finalized(Finalized(w), ts)

\* dump_on after _set_timestamp.
dump_on_timed(t) ==
    IF t.err # "" THEN t
    ELSE IF t.dumping THEN t
    ELSE dump_values(dump_timestamp([t EXCEPT !.dumping = TRUE]), "$dumpon")

\* dump_on after the finalization, if any.
dump_on_finalized(f, ts) ==
    IF f.err # "" THEN f ELSE dump_on_timed(set_timestamp(f, ts))

dump_on(w, ts) == dump_on_finalized(Finalized(w), ts)

\* change() formatting every value, equal to the recorded one or not.
AlwaysFresh(var, value) == TRUE

\* change() comparing the formatted text of the value with the formatted text of
\* the recorded value.
FreshByText(var, value) ==
    \/ format_value(var, value, TRUE).text # dump(var, TRUE).text
    \/ var.type = "event"

\* change() comparing the values of event variables like any other.
FreshValueOnly(var, value) == PyNe(value, var.value)

\* `value != var.value or var.type == 'event'`: the value is to be formatted
\* and written.
Fresh(var, value) == PyNe(value, var.value) \/ var.type = "event"

\* change() writing its line whenever dumping is on.
ChangeWritesWhileRegistering(w) == w.dumping

\* `self._dumping and not self._registering`: change() writes its line.
ChangeWrites(w) == w.dumping /\ ~w.registering

\* change() from `var.value = value` on: the value is recorded and, if the
\* writer is dumping and finalized, written under its timestamp line.
change_write(t, i, value, val_str) ==
    IF ChangeWrites(t)
    THEN IF t.timestamp # t.last_dumped_ts
         THEN Write([t EXCEPT !.vars[i].value = value, !.last_dumped_ts = t.timestamp],
                    <<TsLine(t.timestamp), ValLine(val_str, t.vars[i].ident)>>)
         ELSE Write([t EXCEPT !.vars[i].value = value],
                    <<ValLine(val_str, t.vars[i].ident)>>)
    ELSE [t EXCEPT !.vars[i].value = value]

\* change() returning, while dumping is suspended, before it records the value.
change_timed_unrecorded(t, i, value, val_str) ==
    IF t.err # "" THEN t
    ELSE IF val_str = <<>> \/ ~t.dumping THEN t
    ELSE change_write(t, i, value, val_str)

\* change() after its timestamp branch: `if not val_str: return`.
change_timed(t, i, value, val_str) ==
    IF t.err # "" THEN t
    ELSE IF val_str = <<>> THEN t
    ELSE change_write(t, i, value, val_str)

\* `self._timestamp = int(timestamp)` after the finalization, if any.
change_advance(f, ts) ==
    IF f.err # "" THEN f ELSE [f EXCEPT !.timestamp = IntOf(ts)]

\* change() raising the value error only after its timestamp branch.
change_formatted_late(w, i, ts, value, r) ==
    IF TvLess(ts, w.timestamp) THEN Raised(w, "VCDPhaseError")
    ELSE IF TvGreater(ts, w.timestamp)
    THEN IF r.err # "" THEN Raised(change_advance(Finalized(w), ts), r.err)
         ELSE change_timed(change_advance(Finalized(w), ts), i, value, r.text)
    ELSE IF r.err # "" THEN Raised(w, r.err)
    ELSE change_timed(w, i, value, r.text)

\* change() advancing its timestamp before it finalizes the registration.
change_formatted_advanced_first(w, i, ts, value, r) ==
    IF r.err # "" THEN Raised(w, r.err)
    ELSE IF TvLess(ts, w.timestamp) THEN Raised(w, "VCDPhaseError")
    ELSE IF TvGreater(ts, w.timestamp)
    THEN change_timed(Finalized(change_advance(w, ts)), i, value, r.text)
    ELSE change_timed(w, i, value, r.text)

\* change() after the value was formatted: the unrolled _set_timestamp.
change_formatted(w, i, ts, value, r) ==
    IF r.err # "" THEN Raised(w, r.err)
    ELSE IF TvLess(ts, w.timestamp) THEN Raised(w, "VCDPhaseError")
    ELSE IF TvGreater(ts, w.timestamp)
    THEN change_timed(change_advance(Finalized(w), ts), i, value, r.text)
    ELSE change_timed(w, i, value, r.text)

change(w, i, ts, value) ==
    IF w.closed THEN Raised(w, "VCDPhaseError")
    ELSE change_formatted(w, i, ts, value,
                          IF Fresh(w.vars[i], value)
                          THEN format_value(w.vars[i], value, w.check_values)
                          ELSE Ok(<<>>))

\* flush() after _set_timestamp.
flush_timed(t) == IF t.err # "" THEN t ELSE dump_timestamp(t)

\* flush() after the finalization, if any.
flush_finalized(f, ts) ==
    IF f.err # "" THEN f
    ELSE IF ts # NoneTs THEN flush_timed(set_timestamp(f, ts))
    ELSE f

\* flush() without its check of _closed.
flush_when_closed(w, ts) == flush_finalized(Finalized(w), ts)

flush(w, ts) ==
    IF w.closed THEN Raised(w, "VCDPhaseError")
    ELSE flush_finalized(Finalized(w), ts)

\* close() after its flush.
close_flushed(f) == IF f.err # "" THEN f ELSE [f EXCEPT !.closed = TRUE]

\* close() without its check of _closed.
close_again(w, ts) == close_flushed(flush(w, ts))

close(w, ts) == IF ~w.closed THEN close_flushed(flush(w, ts)) ELSE w

\* -------------------------------------------------------------- the inputs

\* Timestamps a caller passes, in half units: the integers 0..MaxTime and the
\* float 1.5.
TimeArgs == {2 * t : t \in 0..MaxTime} \cup {3}

\* Values a caller passes to change(): valid and invalid ones for each kind,
\* among them an int and a str that format to the same text.
Values == {IntV(0), IntV(1), StrV(<<"1">>), StrV(<<"q">>)}

\* The register_var calls a caller makes, as (name, var_type, size, init): a
\* scalar, a vector and an event under two names, a type whose size
\* is missing, and an initial value that is not valid.
RegArgs == {<<"n0", "wire", 1, NoneV>>,
            <<"n1", "integer", 2, IntV(1)>>,
            <<"n1", "event", NoSize, NoneV>>,
            <<"n1", "wire", NoSize, NoneV>>,
            <<"n0", "wire", 1, StrV(<<"q">>)>>}

Scopes == {<<"a">>}
Idents == {<<>>}
ScopeTypeArgs == {"module", "bogus"}

\* ------------------------------------------------------------ the actions

\* How a timestamp argument compares with the writer's current timestamp.
Rel(ts) ==
    IF ts = NoneTs THEN "none"
    ELSE IF TvLess(ts, timestamp) THEN "lt"
    ELSE IF TvGreater(ts, timestamp) THEN "gt"
    ELSE "eq"

\* The record of a call: the method, the variable passed (0 for none), how the
\* timestamp passed compares with the current one, whether the value passed
\* equals the variable's recorded value, and the exception raised ("" for none).
Call(op, v, rel, dup, res) == [op |-> op, v |-> v, rel |-> rel, dup |-> dup, res |-> res]

CanCall == ncalls < MaxCalls

Counted == ncalls' = ncalls + 1

\* The writer becomes w, the result of the call, and the call is recorded.
Returned(w, op, v, rel, dup) ==
    /\ Store(w)
    /\ last' = Call(op, v, rel, dup, w.err)
    /\ gen' = gen

Init ==
    /\ check_values = TRUE
    /\ header_keywords = [kw \in {"$date", "$timescale"} |->
                             IF kw = "$date" THEN "today" ELSE "1 us"]
    /\ registering = TRUE
    /\ closed = FALSE
    /\ dumping = TRUE
    /\ next_var_id = 0
    /\ scope_var_strs = EmptyDict
    /\ scope_var_names = EmptyDict
    /\ scope_types = EmptyDict
    /\ vars = <<>>
    /\ init_timestamp = 1
    /\ timestamp = init_timestamp
    /\ last_dumped_ts = NoneTs
    /\ ofile = <<>>
    /\ last = Call("init", 0, "none", FALSE, "")
    /\ ncalls = 0
    /\ gen = [status |-> "none"]

RegisterVar ==
    \E scope \in Scopes, a \in RegArgs, ident \in Idents :
        /\ Len(register_var(Self, scope, a[1], a[2], a[3], a[4], ident).vars) <= MaxVars
        /\ Returned(register_var(Self, scope, a[1], a[2], a[3], a[4], ident),
                    "register_var", 0, "none", FALSE)
        /\ UNCHANGED <<init_timestamp, ncalls>>

SetScopeType ==
    \E scope \in Scopes, scope_type \in ScopeTypeArgs :
        /\ Returned(set_scope_type(Self, scope, scope_type), "set_scope_type", 0, "none", FALSE)
        /\ UNCHANGED <<init_timestamp, ncalls>>

Change ==
    \E i \in 1..Len(vars), ts \in TimeArgs, value \in Values :
        /\ CanCall
        /\ Returned(change(Self, i, ts, value), "change", i, Rel(ts), ~PyNe(value, vars[i].value))
        /\ Counted
        /\ UNCHANGED init_timestamp

DumpOff ==
    \E ts \in TimeArgs :
        /\ CanCall
        /\ Returned(dump_off(Self, ts), "dump_off", 0, Rel(ts), FALSE)
        /\ Counted
        /\ UNCHANGED init_timestamp

DumpOn ==
    \E ts \in TimeArgs :
        /\ CanCall
        /\ Returned(dump_on(Self, ts), "dump_on", 0, Rel(ts), FALSE)
        /\ Counted
        /\ UNCHANGED init_timestamp

Flush ==
    \E ts \in TimeArgs \cup {NoneTs} :
        /\ CanCall
        /\ Returned(flush(Self, ts), "flush", 0, Rel(ts), FALSE)
        /\ Counted
        /\ UNCHANGED init_timestamp

Close ==
    \E ts \in TimeArgs \cup {NoneTs} :
        /\ CanCall
        /\ Returned(close(Self, ts), "close", 0, Rel(ts), FALSE)
        /\ Counted
        /\ UNCHANGED init_timestamp

Next ==
    \/ RegisterVar
    \/ SetScopeType
    \/ Change
    \/ DumpOff
    \/ DumpOn
    \/ Flush
    \/ Close

Spec == Init /\ [][Next]_vars_all

\* ------------------------------------------------- what the claims speak of

\* Every call a caller can make in the current state, by method.
RegisterCalls == Scopes \X RegArgs \X Idents
ChangeCalls == (1..Len(vars)) \X TimeArgs \X Values
TimeOrNone == TimeArgs \cup {NoneTs}

DoRegister(c) == register_var(Self, c[1], c[2][1], c[2][2], c[2][3], c[2][4], c[3])
DoChange(c) == change(Self, c[1], c[2], c[3])

\* The writer after every call of a method other than register_var, change
\* and set_scope_type.
TimedResults ==
    {dump_off(Self, ts) : ts \in TimeArgs} \cup {dump_on(Self, ts) : ts \in TimeArgs}
    \cup {flush(Self, ts) : ts \in TimeOrNone} \cup {close(Self, ts) : ts \in TimeOrNone}

\* The call raised and left the writer and its variables as they were.
Untouched(w) == [w EXCEPT !.err = ""] = Self

EndDefinitions == KwLine("$enddefinitions")
Headers(f) == {j \in 1..Len(f) : f[j] = EndDefinitions}
HasHeader(f) == Headers(f) # {}

C2_PhaseErrorsChangeNothing ==
    /\ (~registering \/ closed) =>
          \A c \in RegisterCalls :
              DoRegister(c).err = "VCDPhaseError" /\ Untouched(DoRegister(c))
    /\ closed =>
          /\ \A c \in ChangeCalls :
                DoChange(c).err = "VCDPhaseError" /\ Untouched(DoChange(c))
          /\ \A ts \in TimeOrNone :
                flush(Self, ts).err = "VCDPhaseError" /\ Untouched(flush(Self, ts))

\* C2, witness: a flush on a closed writer was refused with a phase error.
C2_Witness ==
    closed /\ vars # <<>> /\ last.op = "flush" /\ last.res = "VCDPhaseError"

\* C3: once the writer is closed, every register_var, change, dump_off,
\* dump_on, flush and set_scope_type call fails and leaves the output, the
\* phase, the dumping flag and both timestamps as they were.
C3_ClosedIsTerminal ==
    closed =>
        \A w \in {DoRegister(c) : c \in RegisterCalls}
                 \cup {DoChange(c) : c \in ChangeCalls}
                 \cup {dump_off(Self, ts) : ts \in TimeArgs}
                 \cup {dump_on(Self, ts) : ts \in TimeArgs}
                 \cup {flush(Self, ts) : ts \in TimeOrNone}
                 \cup {set_scope_type(Self, sc, st) : sc \in Scopes, st \in ScopeTypeArgs} :
            /\ w.err # ""
            /\ w.ofile = ofile
            /\ w.registering = registering /\ w.closed = closed /\ w.dumping = dumping
            /\ w.timestamp = timestamp /\ w.last_dumped_ts = last_dumped_ts

C5_TimestampsNeverDecrease ==
    /\ last_dumped_ts # NoneTs => last_dumped_ts <= timestamp
    /\ \A w \in {DoChange(c) : c \in ChangeCalls} \cup TimedResults :
          /\ w.timestamp >= timestamp
          /\ last_dumped_ts # NoneTs => w.last_dumped_ts >= last_dumped_ts
          /\ w.last_dumped_ts # NoneTs => w.last_dumped_ts <= w.timestamp

\* C5, witness: the time advanced past the last emitted timestamp, and a call
\* with a lower timestamp was then refused.
C5_Witness ==
    /\ last_dumped_ts # NoneTs /\ last_dumped_ts < timestamp
    /\ last.rel = "lt" /\ last.res = "VCDPhaseError"

IsTs(l) == l.k = "ts"
IsVal(l) == l.k = "val"
IsVar(l) == l.k = "var"

\* C6: while the writer is registering the sink is empty, whatever
\* register_var, set_scope_type and change calls were made; and in the sink
\* every $var line and the $enddefinitions line precede every timestamp line
\* and every value line.
C6_NothingWrittenWhileRegistering ==
    /\ registering => ofile = <<>>
    /\ \A c \in ChangeCalls :
          DoChange(c).registering => DoChange(c).ofile = <<>>
    /\ \A j, k \in 1..Len(ofile) :
          (IsVar(ofile[j]) \/ ofile[j] = EndDefinitions) /\ (IsTs(ofile[k]) \/ IsVal(ofile[k]))
              => j < k

\* C6, witness: a change of a registering writer was accepted and recorded a
\* new value, and the sink is still empty.
C6_Witness ==
    /\ registering /\ ofile = <<>>
    /\ last.op = "change" /\ last.res = "" /\ ~last.dup

Last(f) == f[Len(f)]
Front(f) == SubSeq(f, 1, Len(f) - 1)
TsIdx(f) == {j \in 1..Len(f) : IsTs(f[j])}
ValIdx(f, ident) == {j \in 1..Len(f) : IsVal(f[j]) /\ f[j].id = ident}
Greatest(S) == CHOOSE j \in S : \A k \in S : k <= j

\* The call appended lines, the last of which is a value line outside a block.
WroteValueLine(w) == Len(w.ofile) > Len(ofile) /\ IsVal(Last(w.ofile))

InOrderChanges ==
    {c \in ChangeCalls : vars[c[1]].type # "event" /\ ~closed /\ c[2] >= 2 * timestamp}
DupChanges == {c \in InOrderChanges : c[3] = vars[c[1]].value}

\* C8 (as amended): a change() on a non-event variable whose value equals the
\* recorded one writes no timestamp line and no value line of its own and
\* leaves every recorded value; but a timestamp greater than the current one
\* advances the current timestamp and, in a registering writer, finalizes the
\* registration: the header and the initial $dumpvars block are written.
C8_DuplicateChangeEffects ==
    \A c \in DupChanges :
        LET w == DoChange(c) IN
        /\ w.err = ""
        /\ w.vars = vars
        /\ w.timestamp = IntOf(c[2])
        /\ IF registering /\ c[2] > 2 * timestamp
           THEN /\ ~w.registering
                /\ HasHeader(w.ofile)
                /\ Cardinality(TsIdx(w.ofile)) = 1
                /\ w.ofile[Greatest(TsIdx(w.ofile))].t = timestamp
                /\ Last(w.ofile) = KwLine("$end")
           ELSE /\ w.ofile = ofile
                /\ w.registering = registering
                /\ w.last_dumped_ts = last_dumped_ts

\* C8, witness: a change repeating the recorded value of a non-event variable
\* with a greater timestamp finalized the registration and advanced the time.
C8_Witness ==
    /\ last.op = "change" /\ last.dup /\ last.rel = "gt" /\ last.res = ""
    /\ vars[last.v].type # "event"
    /\ ~registering /\ timestamp > init_timestamp
    /\ Cardinality(TsIdx(ofile)) = 1 /\ Last(ofile) = KwLine("$end")

\* C8 (as stated): a change() on a non-event variable whose value equals the
\* recorded one writes nothing, does not leave the registering phase and does
\* not advance the current timestamp.
C8_AsStated ==
    \A c \in DupChanges :
        /\ DoChange(c).ofile = ofile
        /\ DoChange(c).registering = registering
        /\ DoChange(c).timestamp = timestamp

\* The lines of f written for the variable, in order of writing.
ValLinesOf(f, ident) == SelectSeq(f, LAMBDA l : IsVal(l) /\ l.id = ident)

\* Two change() calls on one variable with one value at timestamps t1 < t2,
\* the first of them accepted: <<variable, t1, t2, value>>.
TwiceCalls ==
    {c \in (1..Len(vars)) \X TimeArgs \X TimeArgs \X Values :
        /\ c[2] < c[3]
        /\ change(Self, c[1], c[2], c[4]).err = ""}
First(c) == change(Self, c[1], c[2], c[4])
Second(c) == change(First(c), c[1], c[3], c[4])

C10_RecordedValueIsRawValue ==
    \A c \in InOrderChanges :
        LET w == DoChange(c) IN
        w.err = "" =>
            /\ w.vars[c[1]].value = c[3]
            /\ WroteValueLine(w) <=>
                  (c[3] # vars[c[1]].value /\ w.dumping /\ ~w.registering)
            /\ WroteValueLine(w) =>
                  Last(w.ofile) =
                      ValLine(format_value(vars[c[1]], c[3], check_values).text,
                              vars[c[1]].ident)

\* C10, witness: a change with a value different from the recorded one wrote a
\* value line that is the same text as the line last written for the variable.
C10_Witness ==
    /\ last.op = "change" /\ ~last.dup /\ last.res = ""
    /\ vars[last.v].type # "event"
    /\ Len(ofile) >= 2 /\ IsVal(Last(ofile))
    /\ ValIdx(Front(ofile), Last(ofile).id) # {}
    /\ ofile[Greatest(ValIdx(Front(ofile), Last(ofile).id))] = Last(ofile)

\* C10 (as stated): change() never writes, for a non-event variable and outside
\* the blocks, a value line that is the same text as the last value line
\* written for that variable.
C10_AsStated ==
    \A c \in InOrderChanges :
        LET w == DoChange(c)
            before == ValIdx(Front(w.ofile), vars[c[1]].ident)
        IN  WroteValueLine(w) /\ before # {} =>
                w.ofile[Greatest(before)] # Last(w.ofile)

\* The accepted change() calls on an event variable: an open writer, a
\* timestamp in order, a truthy value.
EventChanges ==
    {c \in ChangeCalls : /\ vars[c[1]].type = "event"
                         /\ ~closed /\ c[2] >= 2 * timestamp
                         /\ Truthy(c[3])}

\* C11 (as amended): a change() of an event variable with a truthy value is
\* never dropped for repeating the recorded value or the timestamp: it is
\* accepted and, when the writer after the call is finalized and dumping, it
\* adds exactly one line `1<ident>`, the last of the output. Like any other
\* change it writes no line while the writer stays registering or dumping is
\* suspended, and no block restates it later.
C11_EventChangesNotDeduplicated ==
    \A c \in EventChanges :
        LET w == DoChange(c)
            ident == vars[c[1]].ident
        IN  /\ w.err = ""
            /\ IF w.dumping /\ ~w.registering
               THEN /\ Len(ValLinesOf(w.ofile, ident)) = Len(ValLinesOf(ofile, ident)) + 1
                    /\ Last(w.ofile) = ValLine(<<"1">> \o ident, ident)
               ELSE /\ w.ofile = ofile
                    /\ ValLinesOf(w.ofile, ident) = ValLinesOf(ofile, ident)

\* C11, witness: an event changed twice at one timestamp with one value, and
\* both lines stand at the end of the output.
C11_Witness ==
    /\ last.op = "change" /\ last.res = "" /\ last.dup /\ last.rel = "eq"
    /\ vars[last.v].type = "event"
    /\ Len(ofile) >= 2
    /\ Last(ofile) = ValLine(<<"1">> \o vars[last.v].ident, vars[last.v].ident)
    /\ ofile[Len(ofile) - 1] = Last(ofile)

\* C11 (as stated): every accepted change() of an event variable with a
\* truthy value results in one more `1<ident>` line in the output.
C11_AsStated ==
    \A c \in EventChanges :
        DoChange(c).err = "" =>
            Len(ValLinesOf(DoChange(c).ofile, vars[c[1]].ident))
                = Len(ValLinesOf(ofile, vars[c[1]].ident)) + 1

\* --------------------------------------- suspending and resuming the dump

\* The register_var calls of a caller who declares one variable of each class
\* that dump_off and dump_on treat differently: a scalar, a real, a string, an
\* event and a vector.
RegArgsDump == {<<"n0", "wire", 1, NoneV>>,
                <<"n1", "real", NoSize, NoneV>>,
                <<"n2", "string", NoSize, NoneV>>,
                <<"n1", "event", NoSize, NoneV>>,
                <<"n3", "integer", 2, NoneV>>}

RegisterVarDump ==
    \E scope \in Scopes, a \in RegArgsDump, ident \in Idents :
        /\ Len(register_var(Self, scope, a[1], a[2], a[3], a[4], ident).vars) <= MaxVars
        /\ Returned(register_var(Self, scope, a[1], a[2], a[3], a[4], ident),
                    "register_var", 0, "none", FALSE)
        /\ UNCHANGED <<init_timestamp, ncalls>>

\* A caller who registers variables, changes them, and suspends and resumes
\* the dump.
NextDump ==
    \/ RegisterVarDump
    \/ Change
    \/ DumpOff
    \/ DumpOn

DumpSpec == Init /\ [][NextDump]_vars_all

\* The lines of f after the first n.
Suffix(f, n) == SubSeq(f, n + 1, Len(f))

\* One value line for every non-event variable of vs, in registration order,
\* showing its recorded value.
ValueBlock(vs, check) ==
    SelectSeq([i \in 1..Len(vs) |->
                  IF vs[i].type = "event" THEN KwLine("")
                  ELSE ValLine(format_value(vs[i], vs[i].value, check).text, vs[i].ident)],
              IsVal)

\* The variables after an accepted change call c, as the claim expects them.
Changed(c) == [vars EXCEPT ![c[1]].value = c[3]]

\* C12: while dumping is suspended a change() writes nothing, an accepted one
\* records its value and a rejected one records nothing; the dump_on that
\* follows writes its timestamp line if that timestamp was not the last one
\* written, then `$dumpon`, one line for every non-event variable in
\* registration order showing the value of its latest accepted change (or its
\* value from before), then `$end`, and dumping is on again.
C12_DumpOnRestatesRecordedValues ==
    ~dumping =>
        \A c \in ChangeCalls :
            LET w1 == DoChange(c)
                expected == IF w1.err = "" THEN Changed(c) ELSE vars
            IN  /\ w1.ofile = ofile
                /\ w1.vars = expected
                /\ ~w1.dumping
                /\ \A ts \in TimeArgs :
                      LET w2 == dump_on(w1, ts) IN
                      w2.err = "" =>
                          /\ w2.dumping
                          /\ w2.vars = expected
                          /\ Suffix(w2.ofile, Len(ofile)) =
                                (IF w2.timestamp # last_dumped_ts
                                 THEN <<TsLine(w2.timestamp)>> ELSE <<>>)
                                \o <<KwLine("$dumpon")>>
                                \o ValueBlock(expected, check_values)
                                \o <<KwLine("$end")>>

\* C12, witness: a dump_on wrote a `$dumpon` block, closed by `$end`, whose
\* first line shows a value that no earlier line of the output shows: the
\* value of a change made while dumping was suspended.
C12_Witness ==
    /\ last.op = "dump_on" /\ last.res = "" /\ dumping
    /\ Last(ofile) = KwLine("$end")
    /\ \E j \in 1..(Len(ofile) - 1) :
          /\ ofile[j] = KwLine("$dumpon")
          /\ IsVal(ofile[j + 1])
          /\ \A k \in 1..(j - 1) : ofile[k] # ofile[j + 1]
          /\ \E k \in 1..(j - 1) : ofile[k] = KwLine("$dumpoff")

\* The positions of the `$dumpoff` lines of f.
DumpOffIdx(f) == {j \in 1..Len(f) : f[j] = KwLine("$dumpoff")}

\* The lines a dump_off call wrote between its `$dumpoff` and its `$end`.
DumpOffBlock(w) == SubSeq(w.ofile, Greatest(DumpOffIdx(w.ofile)) + 1, Len(w.ofile) - 1)

\* `x<ident>` for every scalar and `bx <ident>` for every vector of vs, in
\* registration order.
UnknownBlock(vs) ==
    SelectSeq([i \in 1..Len(vs) |->
                  IF vs[i].cls = "ScalarVariable"
                  THEN ValLine(<<"x">> \o vs[i].ident, vs[i].ident)
                  ELSE IF vs[i].cls = "VectorVariable"
                  THEN ValLine(<<"b", "x", " ">> \o vs[i].ident, vs[i].ident)
                  ELSE KwLine("")],
              IsVal)

\* The identifier codes of the variables of vs that are neither real nor event
\* variables, in registration order.
NonRealNonEvent(vs) ==
    SelectSeq([i \in 1..Len(vs) |-> vs[i]], LAMBDA v : v.type \notin {"real", "realtime", "event"})

OnlyTimeMoved(w, ts) ==
    IF ts < 2 * timestamp
    THEN w.err = "VCDPhaseError" /\ Untouched(w)
    ELSE w = [Self EXCEPT !.timestamp = IntOf(ts)]

C15_CloseIsIdempotent ==
    closed => \A ts \in TimeOrNone : close(Self, ts) = Self

\* C15, witness: a close with a timestamp lower than the current one returned
\* without an exception, as only a close of a closed writer does.
C15_Witness ==
    /\ closed /\ ofile # <<>>
    /\ last.op = "close" /\ last.rel = "lt" /\ last.res = ""

\* The timestamps with which a flush or close of the open writer is accepted.
FlushTimes == {ts \in TimeArgs : ~closed /\ ts >= 2 * timestamp}

\* The call appended lines, the last of which is the bare line of timestamp t.
WroteBareTimestamp(w, t) == Len(w.ofile) > Len(ofile) /\ Last(w.ofile) = TsLine(t)

\* C16 (as amended): an accepted flush(t) or close(t) of an open writer ends
\* the output with a bare `#t` line (t without its fraction) exactly when: the
\* writer is finalized and dumping and t is not the last timestamp written; or
\* it is registering with variables and t is past the initial timestamp (the
\* line then follows the header and the $dumpvars block); or no timestamp line
\* was written yet and there are no variables. While dumping is suspended no
\* line is written.
C16_FlushWritesBareTimestamp ==
    \A ts \in FlushTimes :
        LET w == flush(Self, ts) IN
        /\ w.err = ""
        /\ w.timestamp = IntOf(ts)
        /\ close(Self, ts).ofile = w.ofile
        /\ WroteBareTimestamp(w, IntOf(ts)) <=>
              IF registering
              THEN vars = <<>> \/ IntOf(ts) > timestamp
              ELSE \/ dumping /\ IntOf(ts) # last_dumped_ts
                   \/ last_dumped_ts = NoneTs
        /\ ~registering /\ ~dumping /\ last_dumped_ts # NoneTs => w.ofile = ofile

\* C16, witness: while dumping was suspended a flush with a timestamp greater
\* than the last one written was accepted and wrote no line after the
\* `$dumpoff` block.
C16_Witness ==
    /\ ~dumping /\ ~closed
    /\ last.op = "flush" /\ last.res = "" /\ last.rel = "gt"
    /\ last_dumped_ts # NoneTs /\ timestamp > last_dumped_ts
    /\ Last(ofile) = KwLine("$end")

\* C16 (as stated): an accepted flush(t) of an open writer, with a whole t
\* greater than the last timestamp written, ends the output with a bare `#t`
\* line, in every phase.
C16_AsStated ==
    \A ts \in FlushTimes :
        last_dumped_ts # NoneTs /\ ts > 2 * last_dumped_ts /\ ts % 2 = 0
            => WroteBareTimestamp(flush(Self, ts), IntOf(ts))

OutOfOrderResults ==
    UNION {{dump_off(Self, ts), dump_on(Self, ts), flush(Self, ts), close(Self, ts)} :
              ts \in {t \in TimeArgs : t < 2 * timestamp}}

\* C18: a dump_off, dump_on, flush or close call that raises a phase error for
\* an out-of-order timestamp has written nothing and left the phase, the
\* dumping flag, both timestamps and the recorded values as they were.
C18_RejectedTimedCallChangesNothing ==
    \A w \in OutOfOrderResults : w.err = "VCDPhaseError" => Untouched(w)

\* ------------------------------------------------ registration and scopes

\* A scope argument: a str, as its characters, or a tuple of names.
ScopeStr(chars) == [k |-> "str", s |-> chars, t |-> <<>>]
ScopeTuple(names) == [k |-> "tuple", s |-> <<>>, t |-> names]

\* The scope_sep of the constructor's default.
ScopeSep == "."

RECURSIVE Split(_, _)
\* str.split(sep) on a sequence of characters: the runs between separators.
Split(s, sep) ==
    IF \E j \in 1..Len(s) : s[j] = sep
    THEN LET j == CHOOSE j \in 1..Len(s) : s[j] = sep /\ \A k \in 1..(j - 1) : s[k] # sep
         IN  <<SubSeq(s, 1, j - 1)>> \o Split(SubSeq(s, j + 1, Len(s)), sep)
    ELSE <<s>>

\* The name a run of characters spells; the names used here have one letter.
NameOf(run) == IF run = <<>> THEN "" ELSE run[1]

\* _get_scope_tuple taking a str as one name, separators and all.
get_scope_tuple_unsplit(scope) ==
    IF scope.k = "str" THEN <<NameOf(scope.s)>> ELSE scope.t

\* _get_scope_tuple: a str is split at the separator, a tuple is taken as it is.
get_scope_tuple(scope) ==
    IF scope.k = "str"
    THEN [j \in 1..Len(Split(scope.s, ScopeSep)) |-> NameOf(Split(scope.s, ScopeSep)[j])]
    ELSE scope.t

\* The scopes a caller names: `a` and `a.b` as a str and as a tuple, and `b`.
ScopeInputs == {ScopeStr(<<"a">>), ScopeStr(<<"a", ".", "b">>),
                ScopeTuple(<<"a">>), ScopeTuple(<<"a", "b">>), ScopeTuple(<<"b">>)}

\* The register_var calls, as (name, var_type, size, init): valid ones under
\* two names, an unknown type, a missing size and an initial value that is
\* not valid.
RegArgsScoped == {<<"n0", "wire", 1, NoneV>>,
                  <<"n1", "integer", NoSize, NoneV>>,
                  <<"n0", "bogus", 1, NoneV>>,
                  <<"n0", "wire", NoSize, NoneV>>,
                  <<"n0", "wire", 1, StrV(<<"q">>)>>}

ScopedCalls == ScopeInputs \X RegArgsScoped
DoScoped(w, c) ==
    register_var(w, get_scope_tuple(c[1]), c[2][1], c[2][2], c[2][3], c[2][4], <<>>)

RegisterVarScoped ==
    \E c \in ScopedCalls :
        /\ Len(DoScoped(Self, c).vars) <= MaxVars
        /\ Returned(DoScoped(Self, c), "register_var", 0, "none", FALSE)
        /\ UNCHANGED <<init_timestamp, ncalls>>

\* A caller who registers variables in several scopes and then flushes.
NextReg ==
    \/ RegisterVarScoped
    \/ Flush

RegSpec == Init /\ [][NextReg]_vars_all

\* The names registered in a scope: those of its name set, none if it has no set.
NamesIn(w, scope_tuple) == Get(w.scope_var_names, scope_tuple, {})
ScopeTuples == {get_scope_tuple(scope) : scope \in ScopeInputs}

PathOf(scope) ==
    CASE scope = ScopeStr(<<"a">>) -> <<"a">>
      [] scope = ScopeStr(<<"a", ".", "b">>) -> <<"a", "b">>
      [] OTHER -> scope.t

\* A variable of that name was registered in that scope path: its `$var` line
\* is in the declaration list of the path.
RegisteredIn(strs, path, name) ==
    /\ path \in DOMAIN strs
    /\ \E j \in 1..Len(strs[path]) : strs[path][j].s[2] = name

Registered(path, name) == RegisteredIn(scope_var_strs, path, name)

NamedCalls(n) ==
    LET arg == IF n % 2 = 0 THEN <<"wire", 1>> ELSE <<"integer", 2>> IN
    {<<Render(n, 10), arg[1], arg[2], NoneV>>,
     <<Render(n, 10), arg[1], arg[2], StrV(<<"q">>)>>,
     <<Render(0, 10), arg[1], arg[2], NoneV>>}

DoNamed(w, a) == register_var(w, <<"a">>, a[1], a[2], a[3], a[4], <<>>)

RegisterNamed ==
    \E a \in NamedCalls(Len(vars)) :
        /\ Len(DoNamed(Self, a).vars) <= MaxIds
        /\ Returned(DoNamed(Self, a), "register_var", 0, "none", FALSE)
        /\ UNCHANGED <<init_timestamp, ncalls>>

NextIds == RegisterNamed \/ DumpOff \/ Flush \/ Close

IdSpec == Init /\ [][NextIds]_vars_all

C22_FinalizeDumpsRecordedValues ==
    registering =>
      LET DumpVarsBlock(vs, t) ==
              IF vs = <<>> THEN <<>>
              ELSE <<TsLine(t), KwLine("$dumpvars")>> \o ValueBlock(vs, TRUE)
                   \o <<KwLine("$end")>>
          n == Len(gen_header(Self)) + Len(DumpVarsBlock(vars, timestamp))
      IN
      /\ finalize_registration(Self).ofile
            = gen_header(Self) \o DumpVarsBlock(vars, timestamp)
      /\ \A w \in TimedResults :
            /\ SubSeq(w.ofile, 1, n) = gen_header(Self) \o DumpVarsBlock(vars, timestamp)
            /\ KwLine("$dumpvars") \notin {w.ofile[j] : j \in (n + 1)..Len(w.ofile)}
      /\ \A c \in ChangeCalls :
            LET w == DoChange(c)
                var == vars[c[1]]
                written == PyNe(c[3], var.value) \/ var.type = "event"
            IN  /\ w.err = "" /\ c[2] <= 2 * timestamp =>
                      /\ w.registering
                      /\ finalize_registration(w).ofile
                            = gen_header(w)
                              \o DumpVarsBlock(IF written THEN Changed(c) ELSE vars, timestamp)
                /\ w.err = "" /\ c[2] > 2 * timestamp =>
                      /\ SubSeq(w.ofile, 1, n)
                            = gen_header(Self) \o DumpVarsBlock(vars, timestamp)
                      /\ Suffix(w.ofile, n)
                            = IF ~written THEN <<>>
                              ELSE (IF IntOf(c[2]) > timestamp
                                    THEN <<TsLine(IntOf(c[2]))>> ELSE <<>>)
                                   \o <<ValLine(format_value(var, c[3], TRUE).text, var.ident)>>

\* C22, witness: a change at timestamp 1.5 finalized a writer that had an
\* event variable and a variable changed while registering; its value line
\* follows the `$end` of the block, under the one timestamp line of the output.
C22_Witness ==
    /\ last.op = "change" /\ last.rel = "gt" /\ last.res = "" /\ ncalls >= 2
    /\ Len(ofile) >= 2 /\ IsVal(Last(ofile)) /\ ofile[Len(ofile) - 1] = KwLine("$end")
    /\ Cardinality(TsIdx(ofile)) = 1
    /\ \E i \in 1..Len(vars) : vars[i].type = "event"

\* C22 (as stated): the value of the change that triggers the finalization
\* follows the block under a timestamp line of its own.
C22_AsStated ==
    \A c \in ChangeCalls :
        LET w == DoChange(c) IN
        registering /\ w.err = "" /\ c[2] > 2 * timestamp /\ WroteValueLine(w) =>
            /\ IsTs(w.ofile[Len(w.ofile) - 1])
            /\ Cardinality(TsIdx(w.ofile)) = 2

\* ------------------------------------------------------ the closed output

\* C23: whenever close() returns, and in every state of a closed writer, the
\* output is one header, with `$enddefinitions` as its last line and no
\* timestamp, value or block line in it, followed by a body of timestamp
\* lines, value lines and blocks: every `$dumpvars`, `$dumpoff` and `$dumpon`
\* line is followed by value lines only up to an `$end` line, every `$end`
\* line closes such a block, and every value line has a timestamp line
\* somewhere before it.
C23_ClosedOutputIsWellFormed ==
    LET Opens == {KwLine("$dumpvars"), KwLine("$dumpoff"), KwLine("$dumpon")}
        End == KwLine("$end")
        Valid(f) ==
            /\ Cardinality(Headers(f)) = 1
            /\ \A h \in Headers(f) :
                  /\ \A j \in 1..(h - 1) :
                        \/ f[j].k \in {"hdr", "scope", "var"}
                        \/ f[j] = KwLine("$upscope")
                  /\ \A j \in (h + 1)..Len(f) :
                        \/ IsTs(f[j]) \/ IsVal(f[j])
                        \/ f[j] \in Opens \cup {End}
            /\ \A j \in 1..Len(f) :
                  f[j] \in Opens =>
                      \E k \in (j + 1)..Len(f) :
                          /\ f[k] = End
                          /\ \A m \in (j + 1)..(k - 1) : IsVal(f[m])
            /\ \A k \in 1..Len(f) :
                  f[k] = End =>
                      \E j \in 1..(k - 1) :
                          /\ f[j] \in Opens
                          /\ \A m \in (j + 1)..(k - 1) : IsVal(f[m])
            /\ \A j \in 1..Len(f) :
                  IsVal(f[j]) => \E k \in 1..(j - 1) : IsTs(f[k])
    IN  /\ closed => Valid(ofile)
        /\ \A ts \in TimeOrNone :
              close(Self, ts).err = "" =>
                  /\ close(Self, ts).closed
                  /\ Valid(close(Self, ts).ofile)

\* C23, witness: a writer with a variable was suspended, resumed and closed:
\* its output holds the three kinds of block.
C23_Witness ==
    /\ closed /\ last.op = "close" /\ last.res = ""
    /\ vars # <<>>
    /\ \E i, j, k \in 1..Len(ofile) :
          /\ i < j /\ j < k
          /\ ofile[i] = KwLine("$dumpvars")
          /\ ofile[j] = KwLine("$dumpoff")
          /\ ofile[k] = KwLine("$dumpon")

\* ------------------------------------------------------ the header's scopes

\* The scopes of a design with nested and sibling scopes, and the register_var
\* calls made in them.
NestedScopes == {<<"a">>, <<"a", "a">>, <<"a", "b">>, <<"b", "a">>}
NestedCalls == NestedScopes \X {"n0", "n1"}

DoNested(w, c) == register_var(w, c[1], c[2], "wire", 1, NoneV, <<>>)

RegisterNested ==
    \E c \in NestedCalls :
        /\ Len(DoNested(Self, c).vars) <= MaxVars + 1
        /\ Returned(DoNested(Self, c), "register_var", 0, "none", FALSE)
        /\ UNCHANGED <<init_timestamp, ncalls>>

NextNested == RegisterNested \/ SetScopeType \/ Flush

NestedSpec == Init /\ [][NextNested]_vars_all

\* C24: in the header of a registering writer the `$scope` and `$upscope`
\* lines are balanced; the scope paths the `$scope` lines open are, each
\* exactly once, the registered paths and their ancestors, in lexicographic
\* order of the paths; every `$var` line stands in the scope it was registered
\* in, and the `$var` lines of one scope are in registration order. Every
\* finalizing call writes this header.
C24_ScopesSortedAndOpenedOnce ==
    registering =>
      LET H == gen_header(Self)
          Depth(j) == Cardinality({k \in 1..j : H[k].k = "scope"})
                      - Cardinality({k \in 1..j : H[k] = KwLine("$upscope")})
          \* the scope path that is open after line j
          PathAt(j) == [d \in 1..Depth(j) |->
                           H[Greatest({k \in 1..j : H[k].k = "scope" /\ Depth(k) = d})].s[2]]
          ScopeIdx == {j \in 1..Len(H) : H[j].k = "scope"}
          VarIdx(p) == {j \in 1..Len(H) : IsVar(H[j]) /\ PathAt(j) = p}
          RegIdx(l) == CHOOSE i \in 1..Len(vars) : vars[i].ident = l.id
      IN  /\ \A j \in 1..Len(H) : Depth(j) >= 0
          /\ Depth(Len(H)) = 0
          /\ \A j, k \in ScopeIdx : j < k => TupleLess(PathAt(j), PathAt(k))
          /\ {PathAt(j) : j \in ScopeIdx}
                = UNION {{SubSeq(p, 1, n) : n \in 1..Len(p)} : p \in DOMAIN scope_var_strs}
          /\ \A p \in DOMAIN scope_var_strs :
                /\ Cardinality(VarIdx(p)) = Len(scope_var_strs[p])
                /\ \A j \in VarIdx(p) :
                      \E n \in 1..Len(scope_var_strs[p]) : scope_var_strs[p][n] = H[j]
                /\ \A j, k \in VarIdx(p) : j < k => RegIdx(H[j]) < RegIdx(H[k])
          /\ Cardinality({j \in 1..Len(H) : IsVar(H[j])}) = Len(vars)
          /\ \A w \in TimedResults : SubSeq(w.ofile, 1, Len(H)) = H

\* C24, witness: variables were registered in a.b, then in b.a, then in a.a,
\* and the header was written: it opens a, a, b and b, a in this order.
C24_Witness ==
    /\ ~registering /\ last.op = "flush" /\ Len(vars) = 3
    /\ SelectSeq(ofile, LAMBDA l : l.k \in {"scope", "var"} \/ l = KwLine("$upscope"))
          = << ScopeLine("module", "a"), ScopeLine("module", "a"),
               VarLine("wire", 1, <<"2">>, "n0"), KwLine("$upscope"),
               ScopeLine("module", "b"),
               VarLine("wire", 1, <<"0">>, "n0"), KwLine("$upscope"), KwLine("$upscope"),
               ScopeLine("module", "b"), ScopeLine("module", "a"),
               VarLine("wire", 1, <<"1">>, "n0"), KwLine("$upscope"), KwLine("$upscope") >>

\* ------------------------------------------------------ formatting values

\* The Variable objects whose format_value is called: a scalar, vectors of
\* every width from 2 to MaxWidth, and compound vectors of two and three fields.
FormatVars ==
    {Variable(<<"v">>, "wire", 1, StrV(<<"x">>), "ScalarVariable")}
    \cup {Variable(<<"v">>, "integer", n, StrV(<<"x">>), "VectorVariable") : n \in 2..MaxWidth}
    \cup {Variable(<<"v">>, "integer", size, TupleV([j \in 1..Len(size) |-> StrV(<<"x">>)]),
                   "CompoundVectorVariable") :
             size \in {<<1, 2>>, <<2, 1>>, <<MaxWidth, 2>>, <<1, 1, 2>>}}

\* The values passed for a scalar, a vector or one field: ints on both sides of
\* every width's range (a bool is the int 0 or 1), None, and strings: the
\* empty one, single characters in and out of the 4-state alphabet, and longer
\* ones.
FormatValues ==
    {IntV(i) : i \in (-(2 ^ (MaxWidth - 1)) - 1)..(2 ^ MaxWidth + 1)}
    \cup {NoneV}
    \cup {StrV(t) : t \in
             {<<>>, <<"0">>, <<"1">>, <<"x">>, <<"z">>, <<"X">>, <<"Z">>, <<"q">>, <<"-">>,
              <<"0", "1">>, <<"1", "x">>, <<"x", "1">>, <<"z", "z">>, <<"1", "0", "1">>,
              <<"x", "0", "0">>, <<"0", "0", "0", "0">>}}

\* The values passed to format_value of the variable: for a compound vector,
\* tuples of as many fields as it has, and one of a field less.
FormatArgs(var) ==
    IF var.cls = "CompoundVectorVariable"
    THEN {TupleV(vs) : vs \in [1..Len(var.size) -> FormatValues]}
         \cup {TupleV(<<IntV(0)>>)}
    ELSE FormatValues

\* A caller calls var.format_value(value, check); the call and its result are
\* recorded. The method reads nothing but its arguments and the variable's
\* identifier and size, so one call is made in a behaviour.
FormatValue ==
    /\ last.op = "init"
    /\ \E var \in FormatVars, check \in BOOLEAN :
        \E value \in FormatArgs(var) :
            /\ last' = [op |-> "format_value", var |-> var, value |-> value, check |-> check,
                        res |-> format_value(var, value, check).err,
                        text |-> format_value(var, value, check).text]
            /\ UNCHANGED <<check_values, header_keywords, registering, closed, dumping,
                           next_var_id, scope_var_strs, scope_var_names, scope_types, vars,
                           timestamp, last_dumped_ts, ofile, init_timestamp, ncalls, gen>>

FormatSpec == Init /\ [][FormatValue]_vars_all

RECURSIVE BinaryValue(_)
\* int(bytes(vector), 2): the number a byte string of binary digits denotes.
BinaryValue(vector) ==
    IF vector = <<>> THEN 0
    ELSE 2 * BinaryValue(SubSeq(vector, 1, Len(vector) - 1))
         + (IF vector[Len(vector)] = 49 THEN 1 ELSE 0)

\* The bit string of the text `b<bits> <ident>` a vector's format_value returned.
BitsOf(text, ident) == SubSeq(text, 2, Len(text) - Len(ident) - 1)

\* The recorded call is format_value of a vector of an int, with checking.
VectorIntCall ==
    /\ last.op = "format_value" /\ last.var.cls = "VectorVariable"
    /\ last.check /\ last.value.k = "int"

\* C25: with checking, format_value of a vector of width n accepts the int v
\* exactly when -(2^(n-1)) <= v < 2^n and raises a value error otherwise; the
\* text of an accepted v is `b`, the binary digits of v mod 2^n without leading
\* zeros, a space and the identifier, and a negative v and v + 2^n give the
\* same text.
C25_VectorRangeAndText ==
    VectorIntCall =>
      LET n == last.var.size
          v == last.value.i
          bits == BitsOf(last.text, last.var.ident)
      IN  /\ last.res = "" <=> (-(2 ^ (n - 1)) <= v /\ v < 2 ^ n)
          /\ last.res # "" => last.res = "ValueError"
          /\ last.res = "" =>
                /\ last.text = <<"b">> \o bits \o <<" ">> \o last.var.ident
                /\ bits # <<>>
                /\ \A j \in 1..Len(bits) : bits[j] \in {"0", "1"}
                /\ Len(bits) > 1 => bits[1] = "1"
                /\ BinaryValue([j \in 1..Len(bits) |-> IF bits[j] = "1" THEN 49 ELSE 48]) = v % (2 ^ n)
                /\ v < 0 => format_value(last.var, IntV(v + 2 ^ n), TRUE)
                               = [err |-> "", text |-> last.text]

\* C25, witness: the least int a vector of width 3 accepts, -4, was formatted
\* as `b100 v`.
C25_Witness ==
    /\ VectorIntCall /\ last.var.size = 3 /\ last.value = IntV(-4)
    /\ last.res = "" /\ last.text = <<"b", "1", "0", "0", " ", "v">>

\* C26 (as amended): the bit string of an accepted int v of a vector of width
\* n, read as an n-bit two's-complement number, gives v when v < 2^(n-1) and
\* v - 2^n when 2^(n-1) <= v < 2^n; read as an unsigned number it gives v when
\* v >= 0 and v + 2^n when v < 0.
C26_VectorRoundTrip ==
    VectorIntCall /\ last.res = "" =>
      LET n == last.var.size
          v == last.value.i
          unsigned == BinaryValue([j \in 1..Len(BitsOf(last.text, last.var.ident)) |->
                                      IF BitsOf(last.text, last.var.ident)[j] = "1"
                                      THEN 49 ELSE 48])
          signed == IF unsigned >= 2 ^ (n - 1) THEN unsigned - 2 ^ n ELSE unsigned
      IN  /\ signed = (IF v < 2 ^ (n - 1) THEN v ELSE v - 2 ^ n)
          /\ unsigned = (IF v >= 0 THEN v ELSE v + 2 ^ n)

\* C26, witness: 3 was accepted for a vector of width 2 and formatted as
\* `b11 v`, the text of -1.
C26_Witness ==
    /\ VectorIntCall /\ last.var.size = 2 /\ last.value = IntV(3)
    /\ last.res = "" /\ last.text = <<"b", "1", "1", " ", "v">>

\* C26 (as stated): the bit string of every accepted int v, read as an n-bit
\* two's-complement number, gives v.
C26_AsStated ==
    VectorIntCall /\ last.res = "" =>
      LET n == last.var.size
          unsigned == BinaryValue([j \in 1..Len(BitsOf(last.text, last.var.ident)) |->
                                      IF BitsOf(last.text, last.var.ident)[j] = "1"
                                      THEN 49 ELSE 48])
      IN  (IF unsigned >= 2 ^ (n - 1) THEN unsigned - 2 ^ n ELSE unsigned) = last.value.i

\* The recorded call is format_value of a compound vector, with checking, of a
\* value with a field for every field of the size; every field is an int in
\* the range of its width, None, or a string of 4-state characters no longer
\* than its width and no shorter than least.
CompoundCall(least) ==
    /\ last.op = "format_value" /\ last.var.cls = "CompoundVectorVariable"
    /\ last.check /\ Len(last.value.s) = Len(last.var.size)
    /\ \A j \in 1..Len(last.var.size) :
          LET f == last.value.s[j]
              n == last.var.size[j]
          IN  \/ f.k = "int" /\ -(2 ^ (n - 1)) <= f.i /\ f.i < 2 ^ n
              \/ f.k = "none"
              \/ /\ f.k = "str" /\ least <= Len(f.s) /\ Len(f.s) <= n
                 /\ \A m \in 1..Len(f.s) : f.s[m] \in ScalarChars

\* The recorded call returned a bit string of at most the total width which,
\* left-extended to the total width and split at the field boundaries, gives
\* every field's own rendering left-extended to the field's width.
FieldsRecovered ==
    LET size == last.var.size
        RECURSIVE SumTo(_)
        SumTo(j) == IF j = 0 THEN 0 ELSE SumTo(j - 1) + size[j]
        \* VCD left-extension of t to n characters
        Extended(t, n) ==
            [m \in 1..(n - Len(t)) |-> IF t[1] \in {"0", "1"} THEN "0" ELSE t[1]] \o t
        bits == BitsOf(last.text, last.var.ident)
    IN  /\ last.res = ""
        /\ last.text = <<"b">> \o bits \o <<" ">> \o last.var.ident
        /\ Len(bits) >= 1 /\ Len(bits) <= SumTo(Len(size))
        /\ \A j \in 1..Len(size) :
              SubSeq(Extended(bits, SumTo(Len(size))), SumTo(j - 1) + 1, SumTo(j))
                 = Extended(format_scalar_value(last.value.s[j], size[j], TRUE).text, size[j])

C28_ScalarAcceptsExactlyFourStateValues ==
    last.op = "format_value" /\ last.var.cls = "ScalarVariable" /\ last.check =>
      LET value == last.value
          accepted == \/ value.k = "str" /\ Len(value.s) = 1 /\ value.s[1] \in ScalarChars
                      \/ value.k = "int" /\ value.i \in {0, 1}
                      \/ value.k = "none"
      IN  /\ last.res = "" <=> accepted
          /\ ~accepted => last.res = "ValueError"
          /\ accepted =>
                last.text = (CASE value.k = "str" -> value.s
                               [] value.k = "int" -> IF value.i = 1 THEN <<"1">> ELSE <<"0">>
                               [] OTHER -> <<"z">>) \o last.var.ident

\* =========================================================== the tokenizer
\* A model of tokenize() of src/vcd/reader.py. A byte is its code, a byte
\* string a sequence of codes; a stream is the bytes it holds, the number of
\* them already read, and the most bytes one readinto() call delivers.

\* The printable ASCII characters, code 32 to code 126; the grave accent, code
\* 96, is in no text of this model and its place is held by the empty string.
AsciiPrintable ==
    <<" ", "!", "\"", "#", "$", "%", "&", "'", "(", ")", "*", "+", ",", "-", ".", "/",
      "0", "1", "2", "3", "4", "5", "6", "7", "8", "9", ":", ";", "<", "=", ">", "?",
      "@", "A", "B", "C", "D", "E", "F", "G", "H", "I", "J", "K", "L", "M", "N", "O",
      "P", "Q", "R", "S", "T", "U", "V", "W", "X", "Y", "Z", "[", "\\", "]", "^", "_",
      "", "a", "b", "c", "d", "e", "f", "g", "h", "i", "j", "k", "l", "m", "n", "o",
      "p", "q", "r", "s", "t", "u", "v", "w", "x", "y", "z", "{", "|", "}", "~">>

\* ord(ch) of the characters of the texts of this model.
Ord ==
    [ch \in {AsciiPrintable[i] : i \in 1..95} \cup {"\n", "\t"} |->
        IF ch = "\n" THEN 10
        ELSE IF ch = "\t" THEN 9
        ELSE 31 + (CHOOSE i \in 1..95 : AsciiPrintable[i] = ch)]

\* text.encode(): the byte string of a text.
Encode(text) == [i \in 1..Len(text) |-> Ord[text[i]]]

RECURSIVE DecimalValue(_)
\* int(bytes(digits)) of a string of decimal digits.
DecimalValue(digits) ==
    IF digits = <<>> THEN 0
    ELSE 10 * DecimalValue(SubSeq(digits, 1, Len(digits) - 1)) + (digits[Len(digits)] - 48)

\* _TokenizerState(stream, bytearray(buf_size)). `c` is the value advance()
\* returned last, `ret` the value the method called last returned, `err` the
\* exception raised ("" for none) and `eloc` the location it carries.
TokenizerState(data, chunk, buf_size) ==
    [data |-> data, rd |-> 0, chunk |-> chunk,
     buf |-> [i \in 1..buf_size |-> 0], pos |-> 0, end |-> 0,
     lineno |-> 1, column |-> 0,
     c |-> 0, ret |-> <<>>, err |-> "", eloc |-> <<0, 0>>]

\* self.loc
Loc(s) == <<s.lineno, s.column>>

\* self.buf[self.pos]
Cur(s) == s.buf[s.pos + 1]

Return(s, v) == [s EXCEPT !.ret = v]
ParseError(s, loc) == [s EXCEPT !.err = "VCDParseError", !.eloc = loc]

\* stream.readinto(buf): as many of the bytes left as the buffer and the
\* stream's read size allow are copied to the front of the buffer.
readinto(s) ==
    LET n == Min(Min(Len(s.buf), s.chunk), Len(s.data) - s.rd) IN
    [s EXCEPT !.buf = [i \in 1..Len(s.buf) |-> IF i <= n THEN s.data[s.rd + i] ELSE s.buf[i]],
              !.rd = @ + n,
              !.ret = n]

\* advance() from `c = self.buf[self.pos]` on: the line and column count.
advance_count(s) ==
    [s EXCEPT !.lineno = IF Cur(s) = 10 THEN @ + 1 ELSE @,
              !.column = IF Cur(s) = 10 THEN 1 ELSE @ + 1,
              !.c = Cur(s)]

\* A refill that leaves the line and column count to the next advance().
advance_refilled_uncounted(r, raise_on_eof) ==
    IF r.ret > 0 THEN [r EXCEPT !.end = r.ret - 1, !.pos = 0, !.c = r.buf[1]]
    ELSE IF raise_on_eof THEN [r EXCEPT !.err = "StopIteration"]
    ELSE [r EXCEPT !.c = 0]

\* A refill that raises a parse error, not StopIteration, at the end of input.
advance_refilled_strict(r, raise_on_eof) ==
    IF r.ret > 0 THEN advance_count([r EXCEPT !.end = r.ret - 1, !.pos = 0])
    ELSE IF raise_on_eof THEN ParseError(r, Loc(r))
    ELSE [r EXCEPT !.c = 0]

\* advance() after readinto() returned r.ret bytes.
advance_refilled(r, raise_on_eof) ==
    IF r.ret > 0 THEN advance_count([r EXCEPT !.end = r.ret - 1, !.pos = 0])
    ELSE IF raise_on_eof THEN [r EXCEPT !.err = "StopIteration"]
    ELSE [r EXCEPT !.c = 0]

advance(s, raise_on_eof) ==
    IF s.err # "" THEN s
    ELSE IF s.pos < s.end THEN advance_count([s EXCEPT !.pos = @ + 1])
    ELSE advance_refilled(readinto(s), raise_on_eof)

\* `c = self.buf[self.pos]` at the start of a method.
AtCur(s) == IF s.err # "" THEN s ELSE [s EXCEPT !.c = Cur(s)]

is_ws(c) == c = 32 \/ (9 <= c /\ c <= 13)

RECURSIVE skip_ws_loop(_)
\* The loop of skip_ws, s.c being `c`.
skip_ws_loop(s) ==
    IF s.err # "" THEN s
    ELSE IF is_ws(s.c) THEN skip_ws_loop(advance(s, TRUE))
    ELSE Return(s, s.c)

skip_ws(s) == skip_ws_loop(AtCur(s))

take_ws_after_kw(s) ==
    IF s.err # "" THEN s
    ELSE IF is_ws(Cur(s)) THEN advance(s, TRUE)
    ELSE ParseError(s, Loc(s))

RECURSIVE take_decimal_loop(_, _)
take_decimal_loop(s, digits) ==
    IF s.err # "" THEN s
    ELSE IF 48 <= s.c /\ s.c <= 57
    THEN take_decimal_loop(advance(s, FALSE), Append(digits, s.c))
    ELSE IF digits # <<>> THEN Return(s, DecimalValue(digits))
    ELSE ParseError(s, Loc(s))

take_decimal(s) == take_decimal_loop(AtCur(s), <<>>)

RECURSIVE take_id_code_loop(_, _)
take_id_code_loop(s, printables) ==
    IF s.err # "" THEN s
    ELSE IF 33 <= s.c /\ s.c <= 126
    THEN take_id_code_loop(advance(s, FALSE), Append(printables, s.c))
    ELSE IF printables # <<>> THEN Return(s, printables)
    ELSE ParseError(s, Loc(s))

take_id_code(s) == take_id_code_loop(AtCur(s), <<>>)

\* The characters a simple identifier starts with, and goes on with.
IdStart(c) == (65 <= c /\ c <= 90) \/ (97 <= c /\ c <= 122) \/ c = 95
IdPart(c) == IdStart(c) \/ (48 <= c /\ c <= 57) \/ c \in {36, 46, 40, 41}

RECURSIVE take_simple_identifier_loop(_, _)
take_simple_identifier_loop(s, identifier) ==
    IF s.err # "" THEN s
    ELSE IF IdPart(s.c)
    THEN take_simple_identifier_loop(advance(s, FALSE), Append(identifier, s.c))
    ELSE Return(s, identifier)

take_simple_identifier(s) ==
    take_simple_identifier_loop(advance(s, TRUE), <<Cur(s)>>)

RECURSIVE take_escaped_identifier_loop(_, _)
take_escaped_identifier_loop(s, identifier) ==
    IF s.err # "" THEN s
    ELSE IF s.c \in {9, 10, 32} THEN Return(s, identifier)
    ELSE IF s.c < 33 \/ s.c > 126 THEN ParseError(s, Loc(s))
    ELSE take_escaped_identifier_loop(advance(s, TRUE), Append(identifier, s.c))

take_escaped_identifier(s) == take_escaped_identifier_loop(advance(s, TRUE), <<>>)

take_identifier(s) ==
    IF s.err # "" THEN s
    ELSE IF IdStart(Cur(s)) THEN take_simple_identifier(s)
    ELSE IF Cur(s) = 92 THEN take_escaped_identifier(s)
    ELSE ParseError(s, Loc(s))

\* take_bit_index after the last skip_ws: the closing bracket.
bit_index_close(s, index) ==
    IF s.err # "" THEN s
    ELSE IF s.ret = 93 THEN Return(advance(s, FALSE), index)
    ELSE ParseError(s, Loc(s))

\* take_bit_index after the second take_decimal.
bit_index_second(s, index0) ==
    IF s.err # "" THEN s ELSE bit_index_close(skip_ws(s), <<index0, s.ret>>)

\* take_bit_index after the skip_ws that follows the first index.
bit_index_first(s, index0) ==
    IF s.err # "" THEN s
    ELSE IF s.ret = 58
    THEN bit_index_second(take_decimal(skip_ws(advance(s, TRUE))), index0)
    ELSE bit_index_close(skip_ws(s), <<index0>>)

\* take_bit_index after the first take_decimal.
bit_index_start(s) ==
    IF s.err # "" THEN s ELSE bit_index_first(skip_ws(s), s.ret)

take_bit_index(s) == bit_index_start(take_decimal(skip_ws(s)))

RECURSIVE take_to_end_loop(_, _)
\* `chars.append(self.advance())`
take_to_end_next(s, chars) ==
    IF s.err # "" THEN s ELSE take_to_end_loop(s, Append(chars, s.c))

\* take_to_end from its first advance() on: the first four characters are
\* taken, then characters up to the first `$end`.
take_to_end_loop(s, chars) ==
    IF s.err # "" THEN s
    ELSE IF Len(chars) < 4
            \/ ~(/\ chars[Len(chars)] = 100
                 /\ chars[Len(chars) - 1] = 110
                 /\ chars[Len(chars) - 2] = 101
                 /\ chars[Len(chars) - 3] = 36)
    THEN take_to_end_next(advance(s, TRUE), chars)
    ELSE IF Len(chars) > 4 /\ ~is_ws(chars[Len(chars) - 4])
    THEN ParseError(s, <<s.lineno, s.column - Min(Len(chars), 5)>>)
    ELSE Return(s, SubSeq(chars, 1, Len(chars) - 5))

\* take_to_end skipping the whitespace before the text.
take_to_end_skipping(s) ==
    IF s.err # "" THEN s ELSE take_to_end_loop(skip_ws(s), <<Cur(skip_ws(s))>>)

take_to_end(s) == IF s.err # "" THEN s ELSE take_to_end_loop(s, <<Cur(s)>>)

RECURSIVE take_end_rest(_, _)
\* take_end: s.c is compared with the first character wanted, and the next
\* character is taken only if it is that one.
take_end_rest(s, want) ==
    IF s.err # "" THEN s
    ELSE IF s.c # want[1] THEN ParseError(s, Loc(s))
    ELSE IF Len(want) = 1 THEN s
    ELSE take_end_rest(advance(s, TRUE), Tail(want))

take_end(s) == take_end_rest(skip_ws(s), <<36, 101, 110, 100>>)

\* Token(kind, s.span(start), data), returned by _parse_token.
Token(s, kind, start, data) ==
    IF s.err # "" THEN s
    ELSE Return(s, [kind |-> kind, start |-> start, end |-> Loc(s), data |-> data])

\* ---- time and value changes

\* The token of a time change carries the decimal taken.
parse_time_token(s, start) ==
    IF s.err # "" THEN s
    ELSE Return(s, [kind |-> "CHANGE_TIME", start |-> start, end |-> Loc(s), data |-> s.ret])

\* A change token after take_id_code: the id code and the value.
change_token(s, kind, start, value) ==
    IF s.err # "" THEN s
    ELSE Return(s, [kind |-> kind, start |-> start, end |-> Loc(s),
                    data |-> [id_code |-> s.ret, value |-> value]])

parse_scalar(s, start, c) ==
    change_token(take_id_code(advance(s, TRUE)), "CHANGE_SCALAR", start, StrV(<<c>>))

\* The vector change after its value: whitespace, then the id code.
vector_id(s, start, value) ==
    IF s.err # "" THEN s
    ELSE IF ~is_ws(s.c) THEN ParseError(s, Loc(s))
    ELSE change_token(take_id_code(skip_ws(s)), "CHANGE_VECTOR", start, value)

RECURSIVE vector_states(_, _, _)
\* The second loop of the vector change: a value with x or z in it is a string.
vector_states(s, start, vector) ==
    IF s.err # "" THEN s
    ELSE IF s.c \in {48, 49, 122, 90, 120, 88}
    THEN vector_states(advance(s, TRUE), start, Append(vector, s.c))
    ELSE vector_id(s, start, StrV(vector))

RECURSIVE vector_bits(_, _, _)
\* The first loop of the vector change: binary digits; int(bytes(vector), 2)
\* raises a value error if there is none.
vector_bits(s, start, vector) ==
    IF s.err # "" THEN s
    ELSE IF s.c \in {48, 49}
    THEN vector_bits(advance(s, TRUE), start, Append(vector, s.c))
    ELSE IF s.c \in {122, 90, 120, 88}
    THEN vector_states(advance(s, TRUE), start, Append(vector, s.c))
    ELSE IF vector = <<>> THEN [s EXCEPT !.err = "ValueError"]
    ELSE vector_id(s, start, IntV(BinaryValue(vector)))

parse_vector(s, start) == vector_bits(advance(s, TRUE), start, <<>>)

\* float(bytes(real_digits)) succeeds: of the texts of this model, which hold
\* no exponent, no leading point, no underscore and no inf or nan, those of an
\* optional sign, digits, and an optional point with digits after it.
IsFloat(digits) ==
    LET body == IF digits # <<>> /\ digits[1] \in {43, 45} THEN Tail(digits) ELSE digits
        points == {j \in 1..Len(body) : body[j] = 46}
    IN  /\ body # <<>> /\ body[1] # 46
        /\ Cardinality(points) <= 1
        /\ \A j \in 1..Len(body) : body[j] = 46 \/ (48 <= body[j] /\ body[j] <= 57)

\* The real and the string change after the value was taken.
valued_id(s, kind, start, chars) ==
    IF s.err # "" THEN s
    ELSE IF kind = "CHANGE_REAL" /\ ~IsFloat(chars) THEN ParseError(s, start)
    ELSE change_token(take_id_code(skip_ws(s)), kind, start, StrV(chars))

RECURSIVE take_to_ws(_, _, _, _)
\* The loop of the real and of the string change: characters up to whitespace.
take_to_ws(s, kind, start, chars) ==
    IF s.err # "" THEN s
    ELSE IF ~is_ws(s.c) THEN take_to_ws(advance(s, TRUE), kind, start, Append(chars, s.c))
    ELSE valued_id(s, kind, start, chars)

parse_valued(s, kind, start) == take_to_ws(advance(s, TRUE), kind, start, <<>>)

\* ---- declarations and commands

\* $comment, $date, $version: the text up to `$end`.
text_token(s, kind, start) ==
    IF s.err # "" THEN s
    ELSE Return(s, [kind |-> kind, start |-> start, end |-> Loc(s), data |-> s.ret])

parse_text(s, kind, start) == text_token(take_to_end(take_ws_after_kw(s)), kind, start)

\* $enddefinitions, $upscope: `$end` follows.
parse_ended(s, kind, start) == Token(take_end(take_ws_after_kw(s)), kind, start, NoneV)

ScopeTypes ==
    {Encode(<<"b", "e", "g", "i", "n">>),
    Encode(<<"f", "o", "r", "k">>),
    Encode(<<"f", "u", "n", "c", "t", "i", "o", "n">>),
    Encode(<<"m", "o", "d", "u", "l", "e">>),
    Encode(<<"t", "a", "s", "k">>)}

\* $scope after the second take_identifier.
scope_named(s, start, scope_type) ==
    IF s.err # "" THEN s
    ELSE Token(take_end(s), "SCOPE", start, [type_ |-> scope_type, ident |-> s.ret])

\* $scope after the first take_identifier.
scope_typed(s, start) ==
    IF s.err # "" THEN s
    ELSE IF s.ret \notin ScopeTypes THEN ParseError(s, Loc(s))
    ELSE scope_named(take_identifier(skip_ws(s)), start, s.ret)

parse_scope(s, start) == scope_typed(take_identifier(skip_ws(take_ws_after_kw(s))), start)

TimescaleUnits ==
    {Encode(<<"s">>),
    Encode(<<"m", "s">>),
    Encode(<<"u", "s">>),
    Encode(<<"n", "s">>),
    Encode(<<"p", "s">>),
    Encode(<<"f", "s">>)}

\* $timescale after the unit was taken.
timescale_unit(s, start, magnitude) ==
    IF s.err # "" THEN s
    ELSE IF s.ret \notin TimescaleUnits THEN ParseError(s, Loc(s))
    ELSE Token(take_end(s), "TIMESCALE", start, [magnitude |-> magnitude, unit |-> s.ret])

\* $timescale after the magnitude was taken.
timescale_magnitude(s, start) ==
    IF s.err # "" THEN s
    ELSE IF s.ret \notin {1, 10, 100} THEN ParseError(s, Loc(s))
    ELSE timescale_unit(take_identifier(skip_ws(s)), start, s.ret)

parse_timescale(s, start) ==
    timescale_magnitude(take_decimal(skip_ws(take_ws_after_kw(s))), start)

VarTypes ==
    {Encode(<<"e", "v", "e", "n", "t">>),
    Encode(<<"i", "n", "t", "e", "g", "e", "r">>),
    Encode(<<"p", "a", "r", "a", "m", "e", "t", "e", "r">>),
    Encode(<<"r", "e", "a", "l">>),
    Encode(<<"r", "e", "a", "l", "t", "i", "m", "e">>),
    Encode(<<"r", "e", "g">>),
    Encode(<<"s", "u", "p", "p", "l", "y", "0">>),
    Encode(<<"s", "u", "p", "p", "l", "y", "1">>),
    Encode(<<"t", "i", "m", "e">>),
    Encode(<<"t", "r", "i">>),
    Encode(<<"t", "r", "i", "a", "n", "d">>),
    Encode(<<"t", "r", "i", "o", "r">>),
    Encode(<<"t", "r", "i", "r", "e", "g">>),
    Encode(<<"t", "r", "i", "0">>),
    Encode(<<"t", "r", "i", "1">>),
    Encode(<<"w", "a", "n", "d">>),
    Encode(<<"w", "i", "r", "e">>),
    Encode(<<"w", "o", "r">>),
    Encode(<<"s", "t", "r", "i", "n", "g">>),
    Encode(<<"l", "o", "g", "i", "c">>)}

\* $var after the bit index, if any: `$end` follows.
var_indexed(s, start, decl) ==
    IF s.err # "" THEN s
    ELSE Token(take_end(s), "VAR", start, [decl EXCEPT !.bit_index = s.ret])

\* $var after the skip_ws that follows the reference.
var_referenced(s, start, decl) ==
    IF s.err # "" THEN s
    ELSE IF s.ret = 91 THEN var_indexed(take_bit_index(advance(s, TRUE)), start, decl)
    ELSE Token(take_end(s), "VAR", start, decl)

\* $var after the reference was taken.
var_ident(s, start, type_, size, id_code) ==
    IF s.err # "" THEN s
    ELSE var_referenced(skip_ws(s), start,
                        [type_ |-> type_, size |-> size, id_code |-> id_code,
                         reference |-> s.ret, bit_index |-> <<>>])

\* $var after the id code was taken.
var_id_code(s, start, type_, size) ==
    IF s.err # "" THEN s
    ELSE var_ident(take_identifier(skip_ws(s)), start, type_, size, s.ret)

\* $var after the size was taken.
var_size(s, start, type_) ==
    IF s.err # "" THEN s
    ELSE var_id_code(take_id_code(skip_ws(s)), start, type_, s.ret)

\* $var after the type was taken.
var_type(s, start) ==
    IF s.err # "" THEN s
    ELSE IF s.ret \notin VarTypes THEN ParseError(s, Loc(s))
    ELSE var_size(take_decimal(skip_ws(s)), start, s.ret)

parse_var(s, start) == var_type(take_identifier(skip_ws(take_ws_after_kw(s))), start)

\* _parse_token after the keyword was taken.
parse_keyword(s, start) ==
    IF s.err # "" THEN s
    ELSE CASE s.ret = Encode(<<"c", "o", "m", "m", "e", "n", "t">>) -> parse_text(s, "COMMENT", start)
           [] s.ret = Encode(<<"d", "a", "t", "e">>) -> parse_text(s, "DATE", start)
           [] s.ret = Encode(<<"e", "n", "d", "d", "e", "f", "i", "n", "i", "t", "i", "o", "n", "s">>) ->
                  parse_ended(s, "ENDDEFINITIONS", start)
           [] s.ret = Encode(<<"s", "c", "o", "p", "e">>) -> parse_scope(s, start)
           [] s.ret = Encode(<<"t", "i", "m", "e", "s", "c", "a", "l", "e">>) ->
                  parse_timescale(s, start)
           [] s.ret = Encode(<<"u", "p", "s", "c", "o", "p", "e">>) -> parse_ended(s, "UPSCOPE", start)
           [] s.ret = Encode(<<"v", "a", "r">>) -> parse_var(s, start)
           [] s.ret = Encode(<<"v", "e", "r", "s", "i", "o", "n">>) -> parse_text(s, "VERSION", start)
           [] s.ret = Encode(<<"d", "u", "m", "p", "a", "l", "l">>) -> Token(s, "DUMPALL", start, NoneV)
           [] s.ret = Encode(<<"d", "u", "m", "p", "o", "f", "f">>) -> Token(s, "DUMPOFF", start, NoneV)
           [] s.ret = Encode(<<"d", "u", "m", "p", "o", "n">>) -> Token(s, "DUMPON", start, NoneV)
           [] s.ret = Encode(<<"d", "u", "m", "p", "v", "a", "r", "s">>) -> Token(s, "DUMPVARS", start, NoneV)
           [] s.ret = Encode(<<"e", "n", "d">>) -> Token(s, "END", start, NoneV)
           [] OTHER -> ParseError(s, Loc(s))

\* _parse_token after its skip_ws: s.ret is `c`, and the token starts here.
parse_token_at(s) ==
    IF s.err # "" THEN s
    ELSE IF s.ret = 35 THEN parse_time_token(take_decimal(advance(s, TRUE)), Loc(s))
    ELSE IF s.ret \in {48, 49, 122, 90, 120, 88} THEN parse_scalar(s, Loc(s), s.ret)
    ELSE IF s.ret \in {66, 98} THEN parse_vector(s, Loc(s))
    ELSE IF s.ret \in {82, 114} THEN parse_valued(s, "CHANGE_REAL", Loc(s))
    ELSE IF s.ret \in {83, 115} THEN parse_valued(s, "CHANGE_STRING", Loc(s))
    ELSE IF s.ret = 36 THEN parse_keyword(take_identifier(advance(s, TRUE)), Loc(s))
    ELSE ParseError(s, Loc(s))

parse_token(s) == parse_token_at(skip_ws(s))

RECURSIVE tokenize_loop(_, _)
\* The loop of tokenize after _parse_token: a StopIteration from inside the
\* token ends the generator like one from the advance() between tokens; any
\* other exception leaves it.
tokenize_parsed(s, tokens) ==
    IF s.err = "StopIteration" THEN [tokens |-> tokens, err |-> "", eloc |-> <<0, 0>>]
    ELSE IF s.err # "" THEN [tokens |-> tokens, err |-> s.err, eloc |-> s.eloc]
    ELSE tokenize_loop(advance(s, TRUE), Append(tokens, s.ret))

\* The loop of tokenize after its advance().
tokenize_loop(s, tokens) ==
    IF s.err # "" THEN [tokens |-> tokens, err |-> "", eloc |-> <<0, 0>>]
    ELSE tokenize_parsed(parse_token(s), tokens)

\* list(tokenize(stream, buf_size)) and the exception that ended it, if any.
tokenize(data, chunk, buf_size) ==
    tokenize_loop(advance(TokenizerState(data, chunk, buf_size), TRUE), <<>>)

\* ---- buffering (C30)

\* The buffer sizes of the model run from 1 to MaxBuf.
MaxBuf == 3

\* A stream with a declaration, a change or a command of every kind.
Comprehensive ==
    Encode(<<"$", "d", "a", "t", "e", " ", "t", "o", "d", "a", "y", " ", "$", "e", "n", "d", "\n",
             "$", "t", "i", "m", "e", "s", "c", "a", "l", "e", " ", "1", " ", "u", "s", " ", "$", "e", "n", "d", "\n",
             "$", "s", "c", "o", "p", "e", " ", "m", "o", "d", "u", "l", "e", " ", "a", " ", "$", "e", "n", "d", "\n",
             "$", "v", "a", "r", " ", "w", "i", "r", "e", " ", "2", " ", "!", " ", "n", " ", "[", "1", ":", "0", "]", " ", "$", "e", "n", "d", "\n",
             "$", "u", "p", "s", "c", "o", "p", "e", " ", "$", "e", "n", "d", "\n",
             "$", "e", "n", "d", "d", "e", "f", "i", "n", "i", "t", "i", "o", "n", "s", " ", "$", "e", "n", "d", "\n",
             "#", "0", "\n",
             "$", "d", "u", "m", "p", "v", "a", "r", "s", "\n",
             "b", "1", "0", " ", "!", "\n",
             "1", "\"", "\n",
             "r", "1", ".", "5", " ", "#", "\n",
             "s", "x", " ", "$", "\n",
             "$", "e", "n", "d", "\n">>)

\* Streams that end in an error, or in the middle of a token.
Malformed ==
    {Encode(<<"$", "f", "o", "o">>),
     Encode(<<"$", "s", "c", "o", "p", "e", " ", "b", "a", "d", " ", "a", " ", "$", "e", "n", "d">>),
     Encode(<<"b", " ", "!">>),
     Encode(<<"$", "d", "a", "t", "e", " ", "x", "$", "e", "n", "d">>),
     Encode(<<"#", "x">>),
     Encode(<<"r", "1", "x", " ", "!">>),
     Encode(<<"!">>),
     Encode(<<"$", "t", "i", "m", "e", "s", "c", "a", "l", "e", " ", "2", " ", "s", " ", "$", "e", "n", "d">>),
     Encode(<<"$", "v", "a", "r", " ", "w", "i", "r", "e", " ", "1", " ", "!", " ", "\\", "e", ".", "s", " ", "$", "e", "n", "d">>),
     Encode(<<"b", "x", "1", " ", "!">>),
     Encode(<<"$", "c", "o", "m", "m", "e", "n", "t", "$", "e", "n", "d">>),
     Encode(<<"$", "c", "o", "m", "m", "e", "n", "t", " ", "$", "e", "n", "d">>),
     Encode(<<"$", "v", "e", "r", "s", "i", "o", "n", "\t", "v", " ", "1", "\n",
              "$", "e", "n", "d", " ", "#", "1", "2", " ", "z", "!">>),
     Encode(<<"$", "v", "a", "r", " ", "b", "i", "t", " ", "1", " ", "!", " ", "n", " ", "$", "e", "n", "d">>),
     Encode(<<"$", "v", "a", "r", " ", "r", "e", "g", " ", "3", " ", "a", "b", " ", "n", "[", "2", "]", " ", "$", "e", "n", "d", "\n",
              "$", "d", "u", "m", "p", "a", "l", "l", " ", "$", "d", "u", "m", "p", "o", "f", "f", " ", "$", "d", "u", "m", "p", "o", "n">>),
     Encode(<<"$", "v", "a", "r", " ", "r", "e", "g", " ", "3", " ", "a", "b", " ", "n", " ", "[", "2", " ", "$", "e", "n", "d">>),
     Encode(<<"b", "1", "x">>),
     Encode(<<"$", "u", "p", "s", "c", "o", "p", "e", " ", "$", "e", "n", "x">>),
     Encode(<<" ", " ", "\n",
              "\n",
              " ", "#", "7">>),
     Encode(<<"B", "0", "1", " ", "!", "!", "\n",
              "R", "-", "2", " ", "!", "\n",
              "S", " ", "!">>),
     Encode(<<"$", "t", "i", "m", "e", "s", "c", "a", "l", "e", " ", "1", "0", " ", "x", "s", " ", "$", "e", "n", "d">>),
     Encode(<<"$", "s", "c", "o", "p", "e", " ", "t", "a", "s", "k", " ", "9", " ", "$", "e", "n", "d">>),
     Encode(<<"b", "2", " ", "!">>),
     Encode(<<"x", "!", "y">>)}

\* The streams of the model: every prefix of the comprehensive one, which
\* ends the stream at every place of every kind of token, and the malformed.
Streams == {SubSeq(Comprehensive, 1, n) : n \in 0..Len(Comprehensive)} \cup Malformed

\* list(tokenize(stream, buf_size)) of a stream whose readinto() delivers at
\* most `chunk` bytes a call.
Tokenize ==
    /\ last.op = "init"
    /\ \E data \in Streams, buf_size \in 1..MaxBuf :
        \E chunk \in 1..buf_size :
            /\ last' = [op |-> "tokenize", data |-> data, buf_size |-> buf_size,
                        chunk |-> chunk, res |-> tokenize(data, chunk, buf_size)]
            /\ UNCHANGED <<check_values, header_keywords, registering, closed, dumping,
                           next_var_id, scope_var_strs, scope_var_names, scope_types, vars,
                           timestamp, last_dumped_ts, ofile, init_timestamp, ncalls, gen>>

TokSpec == Init /\ [][Tokenize]_vars_all

\* C30: whatever the buffer size and however the stream splits its bytes
\* across reads, tokenize yields the tokens (kinds, payloads and spans) and
\* ends (at the end of the stream, or with the same error at the same
\* location) as it does when one buffer holds the whole stream.
C30_BufferingIsTransparent ==
    last.op = "tokenize" =>
        last.res = tokenize(last.data, Len(last.data) + 1, Len(last.data) + 1)

\* C30, witness: the comprehensive stream read one byte at a time gave its
\* thirteen tokens, the date's span running over sixteen refills.
C30_Witness ==
    /\ last.op = "tokenize" /\ last.buf_size = 1
    /\ last.data = Comprehensive
    /\ Len(last.res.tokens) = 13 /\ last.res.err = ""
    /\ last.res.tokens[1].kind = "DATE"
    /\ last.res.tokens[1].start = <<1, 1>> /\ last.res.tokens[1].end = <<1, 16>>

\* ---- the round trip (C29)

\* The characters of the words the lines of the model are made of: keywords,
\* header values, scope and variable types, and names.
Spell ==
    "$comment" :> <<"$", "c", "o", "m", "m", "e", "n", "t">> @@
    "$date" :> <<"$", "d", "a", "t", "e">> @@
    "$timescale" :> <<"$", "t", "i", "m", "e", "s", "c", "a", "l", "e">> @@
    "$version" :> <<"$", "v", "e", "r", "s", "i", "o", "n">> @@
    "$dumpvars" :> <<"$", "d", "u", "m", "p", "v", "a", "r", "s">> @@
    "$dumpoff" :> <<"$", "d", "u", "m", "p", "o", "f", "f">> @@
    "$dumpon" :> <<"$", "d", "u", "m", "p", "o", "n">> @@
    "$end" :> <<"$", "e", "n", "d">> @@
    "$upscope" :> <<"$", "u", "p", "s", "c", "o", "p", "e">> @@
    "$enddefinitions" :> <<"$", "e", "n", "d", "d", "e", "f", "i", "n", "i", "t", "i", "o", "n", "s">> @@
    "today" :> <<"t", "o", "d", "a", "y">> @@
    "1 us" :> <<"1", " ", "u", "s">> @@
    "a" :> <<"a">> @@
    "b" :> <<"b">> @@
    "n0" :> <<"n", "0">> @@
    "n1" :> <<"n", "1">> @@
    "begin" :> <<"b", "e", "g", "i", "n">> @@
    "fork" :> <<"f", "o", "r", "k">> @@
    "function" :> <<"f", "u", "n", "c", "t", "i", "o", "n">> @@
    "module" :> <<"m", "o", "d", "u", "l", "e">> @@
    "task" :> <<"t", "a", "s", "k">> @@
    "event" :> <<"e", "v", "e", "n", "t">> @@
    "integer" :> <<"i", "n", "t", "e", "g", "e", "r">> @@
    "real" :> <<"r", "e", "a", "l">> @@
    "reg" :> <<"r", "e", "g">> @@
    "string" :> <<"s", "t", "r", "i", "n", "g">> @@
    "wire" :> <<"w", "i", "r", "e">>

\* The text of a line of the output, as the writer's format strings give it.
LineText(l) ==
    CASE l.k = "ts" -> <<"#">> \o FormatInt(l.t, 10)
      [] l.k = "val" -> l.s
      [] l.k = "kw" -> Spell[l.s[1]] \o (IF l.s[1] \in {"$upscope", "$enddefinitions"}
                                         THEN <<" ", "$", "e", "n", "d">> ELSE <<>>)
      [] l.k = "hdr" -> Spell[l.s[1]] \o <<" ">> \o Spell[l.s[2]] \o <<" ", "$", "e", "n", "d">>
      [] l.k = "scope" -> <<"$", "s", "c", "o", "p", "e", " ">> \o Spell[l.s[1]] \o <<" ">>
                          \o Spell[l.s[2]] \o <<" ", "$", "e", "n", "d">>
      [] l.k = "var" -> <<"$", "v", "a", "r", " ">> \o Spell[l.s[1]] \o <<" ">>
                        \o FormatInt(l.t, 10) \o <<" ">> \o l.id \o <<" ">>
                        \o Spell[l.s[2]] \o <<" ", "$", "e", "n", "d">>

\* The bytes the sink holds: every line written, with its newline.
OutputBytes(lines) == Encode(Join([j \in 1..Len(lines) |-> LineText(lines[j]) \o <<"\n">>]))

\* The register_var calls of a session over nested scopes, as (scope, name,
\* var_type, size): a variable of every class.
RoundCalls == {<<<<"a">>, "n0", "wire", 1>>,
               <<<<"a", "b">>, "n1", "reg", 2>>,
               <<<<"a", "b">>, "n0", "real", NoSize>>,
               <<<<"b", "a">>, "n0", "string", NoSize>>,
               <<<<"a">>, "n1", "event", NoSize>>}

\* The values of the changes of such a session: every one is a valid value of
\* some class, the empty string and the don't-care `-` among them.
RoundValues == {IntV(0), IntV(-1), StrV(<<"z">>), StrV(<<"1", "x">>), StrV(<<"-">>), StrV(<<>>)}

DoRound(w, c) == register_var(w, c[1], c[2], c[3], c[4], NoneV, <<>>)

RegisterRound ==
    \E c \in RoundCalls :
        /\ Len(DoRound(Self, c).vars) <= MaxVars
        /\ Returned(DoRound(Self, c), "register_var", 0, "none", FALSE)
        /\ UNCHANGED <<init_timestamp, ncalls>>

ChangeRound ==
    /\ ncalls < MaxCalls - 1
    /\ \E i \in 1..Len(vars), ts \in {4, 6}, value \in RoundValues :
        /\ Returned(change(Self, i, ts, value), "change", i, Rel(ts), ~PyNe(value, vars[i].value))
        /\ Counted
        /\ UNCHANGED init_timestamp

NextRound == RegisterRound \/ ChangeRound

RoundSpec == Init /\ [][NextRound]_vars_all

\* The token a line of the output stands for: its kind and its payload. The
\* payload of a value change is the identifier code and the value text, which
\* for a vector of binary digits only is the number they denote.
LineToken(l) ==
    LET id == Encode(l.id)
        cls == (CHOOSE i \in 1..Len(vars) : vars[i].ident = l.id)
        text == SubSeq(l.s, 2, Len(l.s) - Len(l.id) - 1)
        space == CHOOSE j \in 1..Len(Spell[l.s[2]]) : Spell[l.s[2]][j] = " "
    IN  CASE l.k = "ts" -> [kind |-> "CHANGE_TIME", data |-> l.t]
          [] l.k = "val" /\ vars[cls].cls \in {"ScalarVariable", "EventVariable"} ->
                 [kind |-> "CHANGE_SCALAR",
                  data |-> [id_code |-> id, value |-> StrV(Encode(<<l.s[1]>>))]]
          [] l.k = "val" /\ vars[cls].cls = "VectorVariable" ->
                 [kind |-> "CHANGE_VECTOR",
                  data |-> [id_code |-> id,
                            value |-> IF \A j \in 1..Len(text) : text[j] \in {"0", "1"}
                                      THEN IntV(BinaryValue(Encode(text)))
                                      ELSE StrV(Encode(text))]]
          [] l.k = "val" /\ vars[cls].cls = "RealVariable" ->
                 [kind |-> "CHANGE_REAL", data |-> [id_code |-> id, value |-> StrV(Encode(text))]]
          [] l.k = "val" /\ vars[cls].cls = "StringVariable" ->
                 [kind |-> "CHANGE_STRING", data |-> [id_code |-> id, value |-> StrV(Encode(text))]]
          [] l.k = "kw" ->
                 [kind |-> (CASE l.s[1] = "$dumpvars" -> "DUMPVARS"
                              [] l.s[1] = "$dumpoff" -> "DUMPOFF"
                              [] l.s[1] = "$dumpon" -> "DUMPON"
                              [] l.s[1] = "$end" -> "END"
                              [] l.s[1] = "$upscope" -> "UPSCOPE"
                              [] l.s[1] = "$enddefinitions" -> "ENDDEFINITIONS"),
                  data |-> NoneV]
          [] l.k = "hdr" /\ l.s[1] = "$timescale" ->
                 [kind |-> "TIMESCALE",
                  data |-> [magnitude |-> DecimalValue(Encode(SubSeq(Spell[l.s[2]], 1, space - 1))),
                            unit |-> Encode(SubSeq(Spell[l.s[2]], space + 1, Len(Spell[l.s[2]])))]]
          [] l.k = "hdr" ->
                 [kind |-> (CASE l.s[1] = "$date" -> "DATE"
                              [] l.s[1] = "$comment" -> "COMMENT"
                              [] l.s[1] = "$version" -> "VERSION"),
                  data |-> Encode(Spell[l.s[2]])]
          [] l.k = "scope" ->
                 [kind |-> "SCOPE",
                  data |-> [type_ |-> Encode(Spell[l.s[1]]), ident |-> Encode(Spell[l.s[2]])]]
          [] l.k = "var" ->
                 [kind |-> "VAR",
                  data |-> [type_ |-> Encode(Spell[l.s[1]]), size |-> l.t, id_code |-> id,
                            reference |-> Encode(Spell[l.s[2]]), bit_index |-> <<>>]]

\* Tokenizing the output yields no error and, line for line, the token each
\* line stands for.
RoundTrips ==
    LET res == tokenize(OutputBytes(ofile), Len(OutputBytes(ofile)) + 1,
                        Len(OutputBytes(ofile)) + 1)
    IN  /\ res.err = ""
        /\ Len(res.tokens) = Len(ofile)
        /\ \A j \in 1..Len(ofile) :
              /\ res.tokens[j].kind = LineToken(ofile[j]).kind
              /\ res.tokens[j].data = LineToken(ofile[j]).data
              /\ res.tokens[j].start[1] = j

\* No vector was written with a value string that is empty or holds `-`.
VectorsSpelled ==
    \A j \in 1..Len(ofile) :
        ofile[j].k = "val" /\ ofile[j].s[1] = "b" =>
            /\ SubSeq(ofile[j].s, 2, Len(ofile[j].s) - Len(ofile[j].id) - 1) # <<>>
            /\ \A n \in 2..Len(ofile[j].s) : ofile[j].s[n] # "-"

Joined ==
    {Encode(<<"#", "1", "x", "1", "!">>),
     Encode(<<"$", "e", "n", "d", "!", "1", "!">>),
     Encode(<<"$", "d", "u", "m", "p", "v", "a", "r", "s", "#", "3">>),
     Encode(<<"#", "1", "2", " ", "1", "!", "b", "1", " ", "!">>),
     Encode(<<"$", "d", "u", "m", "p", "o", "f", "f", "\n", "#", "1", "\n", "x", "!", "\n", "$", "e", "n", "d">>)}

\* The generator object tokenize(stream, buf_size) returns: nothing of the
\* body has run.
generator(data, chunk, buf_size) ==
    [status |-> "created", s |-> TokenizerState(data, chunk, buf_size), yielded |-> 0]

\* The number of bytes of the stream that advance() has returned.
Position(s) == s.rd - (s.end - s.pos)

\* next() once _parse_token returned or raised, in a generator that catches a
\* parse error, raises it, and parses on from where it is when it is resumed.
gen_parsed_resumable(g, p) ==
    IF p.err = ""
    THEN [gen |-> [status |-> "suspended", s |-> p, yielded |-> g.yielded + 1],
          res |-> "token", token |-> p.ret, eloc |-> <<0, 0>>]
    ELSE IF p.err = "StopIteration"
    THEN [gen |-> [status |-> "finished", s |-> p, yielded |-> g.yielded],
          res |-> p.err, token |-> NoneV, eloc |-> p.eloc]
    ELSE [gen |-> [status |-> "suspended", s |-> [p EXCEPT !.err = ""], yielded |-> g.yielded],
          res |-> p.err, token |-> NoneV, eloc |-> p.eloc]

\* next() once _parse_token returned or raised: a token is yielded and the
\* generator suspended; a StopIteration ends the generator; any other
\* exception leaves it, and ends it.
gen_parsed(g, p) ==
    IF p.err = ""
    THEN [gen |-> [status |-> "suspended", s |-> p, yielded |-> g.yielded + 1],
          res |-> "token", token |-> p.ret, eloc |-> <<0, 0>>]
    ELSE [gen |-> [status |-> "finished", s |-> p, yielded |-> g.yielded],
          res |-> p.err, token |-> NoneV, eloc |-> p.eloc]

\* next() of a generator that yields its first token once more before it
\* goes on.
gen_next_replayed(g) ==
    IF g.status = "finished"
    THEN [gen |-> g, res |-> "StopIteration", token |-> NoneV, eloc |-> <<0, 0>>]
    ELSE IF g.status = "suspended" /\ g.yielded = 1
    THEN [gen |-> [g EXCEPT !.yielded = 2], res |-> "token", token |-> g.s.ret,
          eloc |-> <<0, 0>>]
    ELSE gen_parsed(g, parse_token(advance(g.s, TRUE)))

\* next(generator): the body runs from where it was suspended, or from its
\* start, to the next yield; a generator that has returned or raised is
\* finished, and next() of it raises StopIteration.
gen_next(g) ==
    IF g.status = "finished"
    THEN [gen |-> g, res |-> "StopIteration", token |-> NoneV, eloc |-> <<0, 0>>]
    ELSE gen_parsed(g, parse_token(advance(g.s, TRUE)))

\* tokenize(stream, buf_size) is called.
Open ==
    /\ gen.status = "none" /\ last.op = "init"
    /\ \E data \in Streams \cup Joined, buf_size \in 1..MaxBuf :
        /\ gen' = generator(data, buf_size, buf_size)
        /\ last' = [op |-> "tokenize", data |-> data, res |-> ""]
    /\ UNCHANGED <<check_values, header_keywords, registering, closed, dumping,
                   next_var_id, scope_var_strs, scope_var_names, scope_types, vars,
                   timestamp, last_dumped_ts, ofile, init_timestamp, ncalls>>

\* next() is called: the call is recorded with how it ended, the token it
\* returned, the state of the generator it was made in and the number of
\* bytes taken from the stream before and after it.
NextToken ==
    /\ gen.status # "none"
    /\ gen' = gen_next(gen).gen
    /\ last' = [op |-> "next", data |-> gen.s.data, res |-> gen_next(gen).res,
                token |-> gen_next(gen).token, eloc |-> gen_next(gen).eloc,
                was |-> gen.status, before |-> Position(gen.s),
                after |-> Position(gen_next(gen).gen.s)]
    /\ UNCHANGED <<check_values, header_keywords, registering, closed, dumping,
                   next_var_id, scope_var_strs, scope_var_names, scope_types, vars,
                   timestamp, last_dumped_ts, ofile, init_timestamp, ncalls>>

NextGen == Open \/ NextToken

GenSpec == Init /\ [][NextGen]_vars_all

\* The recorded next() call returned or raised in one of the given ways; if
\* it returned a token, at least one more byte of the stream was taken; and
\* no more tokens were yielded than bytes taken, nor more bytes taken than
\* the stream holds.
NextProgressed(ways) ==
    last.op = "next" =>
        /\ last.res \in ways
        /\ last.res = "token" => last.after > last.before
        /\ gen.yielded <= last.after /\ last.after <= Len(last.data)

C32_FailuresAreParseErrors ==
    last.op = "next" =>
        /\ last.res \in {"token", "StopIteration", "VCDParseError"}
        /\ last.res = "VCDParseError" => last.eloc[1] >= 1 /\ last.eloc[2] >= 1

\* C33: an exception is fatal to the generator: the next() call that raises a
\* parse error (or the value error) leaves the generator finished, and every
\* next() call on a finished generator signals the end of the stream, yields
\* no token and takes no byte of the input that is left.
C33_ErrorsAreFatal ==
    [][/\ last'.op = "next" /\ last'.res \in {"VCDParseError", "ValueError"}
          => gen'.status = "finished"
       /\ gen.status = "finished"
          => /\ last'.res = "StopIteration"
             /\ gen'.status = "finished" /\ gen'.yielded = gen.yielded
             /\ Position(gen'.s) = Position(gen.s)]_vars_all

\* C33, witness: after a parse error that left bytes of the stream untaken,
\* next() was called once more and signalled the end of the stream.
C33_Witness ==
    /\ last.op = "next" /\ last.res = "StopIteration" /\ last.was = "finished"
    /\ gen.s.err = "VCDParseError"
    /\ Position(gen.s) + 1 < Len(last.data)

\* ---- the end of input in the middle of a token (C36)

\* The tokens of the comprehensive stream, and the places in it of the first
\* byte of the i-th and of its last byte, the last before the next token
\* that is not whitespace.
FullTokens == tokenize(Comprehensive, Len(Comprehensive) + 1, Len(Comprehensive) + 1).tokens

FirstByte(i) ==
    LET loc == FullTokens[i].start
        newline == CHOOSE m \in 1..Len(Comprehensive) :
                       /\ Comprehensive[m] = 10
                       /\ Cardinality({j \in 1..m : Comprehensive[j] = 10}) = loc[1] - 1
    IN  IF loc[1] = 1 THEN loc[2] ELSE newline + loc[2] - 1

LastByte(i) ==
    LET m == IF i < Len(FullTokens) THEN FirstByte(i + 1) - 1 ELSE Len(Comprehensive)
    IN  Greatest({j \in FirstByte(i)..m : ~is_ws(Comprehensive[j])})

\* The recorded call tokenized the comprehensive stream cut in the middle of
\* its i-th token: after the token's first byte and before its last.
CutInToken(i) ==
    /\ last.op = "tokenize"
    /\ last.data = SubSeq(Comprehensive, 1, Len(last.data))
    /\ FirstByte(i) <= Len(last.data) /\ Len(last.data) < LastByte(i)

\* C36: when the input ends in the middle of a token, the tokens before it
\* are yielded as they are of the whole input, and no failure but a parse
\* error is raised. If the input ends with the first byte of the token or
\* with whitespace, the tokenizer signals the plain end of the stream and
\* yields no token for the truncated text. Otherwise it may signal the end
\* of the stream, raise a parse error, or yield a token for the truncated
\* text, which is then the last.
C36_EndOfInputInsideToken ==
    \A i \in 1..Len(FullTokens) :
        CutInToken(i) =>
            /\ Len(last.res.tokens) \in {i - 1, i}
            /\ SubSeq(last.res.tokens, 1, i - 1) = SubSeq(FullTokens, 1, i - 1)
            /\ last.res.err \in {"", "VCDParseError"}
            /\ Len(last.res.tokens) = i => last.res.err = ""
            /\ Len(last.data) = FirstByte(i) \/ is_ws(last.data[Len(last.data)])
               => last.res.err = "" /\ Len(last.res.tokens) = i - 1

\* C36, witness: the input ended with the space after `$scope module a`, in
\* the middle of the third token: two tokens and the plain end of the stream.
C36_Witness ==
    /\ CutInToken(3) /\ is_ws(last.data[Len(last.data)])
    /\ last.data[Len(last.data) - 1] = 97
    /\ Len(last.res.tokens) = 2 /\ last.res.err = ""
    /\ last.buf_size = 1

\* C36 (as stated): when the input ends in the middle of a token, the
\* tokenizer signals the plain end of the stream after the tokens before it:
\* no token for the truncated text, no parse error.
C36_AsStated ==
    \A i \in 1..Len(FullTokens) :
        CutInToken(i) =>
            /\ last.res.tokens = SubSeq(FullTokens, 1, i - 1)
            /\ last.res.err = ""

\* C40: no byte that is not whitespace is dropped between tokens: when a
\* token was yielded whose text ends with a decimal, an identifier code or a
\* keyword, and a byte of the input ended that run, this byte, which the
\* advance() of the next call steps over, is whitespace.
C40_OnlyWhitespaceIsSkipped ==
    gen.status = "suspended"
    /\ gen.s.ret.kind \in {"CHANGE_TIME", "CHANGE_SCALAR", "CHANGE_VECTOR", "CHANGE_REAL",
                           "CHANGE_STRING", "DUMPALL", "DUMPOFF", "DUMPON", "DUMPVARS", "END"}
    /\ gen.s.c # 0
    => is_ws(Cur(gen.s))

\* ---- the header replayed on a stack (C34)

\* A `$scope` line pushes its name, a `$upscope` line pops; `ok` is lost when
\* the stack popped is empty.
Replayed(r, l) ==
    IF l.k = "scope" THEN [ok |-> r.ok, st |-> Append(r.st, l.s[2])]
    ELSE IF l = KwLine("$upscope")
    THEN [ok |-> r.ok /\ r.st # <<>>,
          st |-> IF r.st = <<>> THEN <<>> ELSE SubSeq(r.st, 1, Len(r.st) - 1)]
    ELSE r

RECURSIVE Replay(_, _, _, _)
\* The stack after the lines j..n of the header H, started from r.
Replay(H, j, n, r) == IF j > n THEN r ELSE Replay(H, j + 1, n, Replayed(r, H[j]))

\* C34: of every set of registered variables, replaying the `$scope` and
\* `$upscope` lines of the header as push and pop never pops an empty stack;
\* at every `$var` line the stack is the scope path the variable was
\* registered with; and the stack is empty at `$enddefinitions $end`, which
\* is the last line.
C34_ScopeStackReplays ==
    registering =>
      LET H == gen_header(Self)
          At(j) == Replay(H, 1, j, [ok |-> TRUE, st |-> <<>>])
      IN  /\ \A j \in 1..Len(H) :
                /\ At(j).ok
                /\ H[j].k = "var" =>
                      /\ At(j).st \in DOMAIN scope_var_strs
                      /\ \E n \in 1..Len(scope_var_strs[At(j).st]) :
                            scope_var_strs[At(j).st][n] = H[j]
                /\ H[j] = KwLine("$enddefinitions") => j = Len(H) /\ At(j).st = <<>>
          /\ H[Len(H)] = KwLine("$enddefinitions")
          /\ Cardinality({j \in 1..Len(H) : H[j].k = "var"}) = Len(vars)

\* C34, witness: variables are registered in a.a, a.b and b.a; the header
\* goes down two scopes, across to a sibling, and up two and down two again.
C34_Witness ==
    /\ registering
    /\ DOMAIN scope_var_strs = {<<"a", "a">>, <<"a", "b">>, <<"b", "a">>}
    /\ Replay(gen_header(Self), 1, Len(gen_header(Self)) - 1, [ok |-> TRUE, st |-> <<>>])
          = [ok |-> TRUE, st |-> <<>>]
    /\ Cardinality({j \in 1..Len(gen_header(Self)) :
                       gen_header(Self)[j] = KwLine("$upscope")}) = 5

\* ------------------------------------------- the registration phase (C38)

\* The lines of the output that open a `$dumpvars` block.
DumpVarsLines == {j \in 1..Len(ofile) : ofile[j] = KwLine("$dumpvars")}

\* C38: while the writer is registering, its timestamp is the initial
\* timestamp and nothing, so no timestamp, was written; and whichever call
\* ended the registration, with whatever timestamp, a `$dumpvars` line of the
\* output stands directly under the line `#<init_timestamp>`, and a writer
\* with variables that left the registration phase has that block.
C38_DumpVarsUnderInitTimestamp ==
    /\ registering => timestamp = init_timestamp /\ last_dumped_ts = NoneTs /\ ofile = <<>>
    /\ \A j \in DumpVarsLines : j > 1 /\ ofile[j - 1] = TsLine(init_timestamp)
    /\ ~registering /\ vars # <<>> => Cardinality(DumpVarsLines) = 1
    /\ ~registering /\ vars = <<>> => DumpVarsLines = {}

\* C38, witness: the first call after the registrations was a change() with a
\* later timestamp; it ended the registration, the writer's timestamp is past
\* the initial one, and the `$dumpvars` block is in the output.
C38_Witness ==
    /\ last.op = "change" /\ last.rel = "gt" /\ last.res = ""
    /\ ncalls = 1
    /\ ~registering
    /\ timestamp > init_timestamp
    /\ DumpVarsLines # {}

\* --------------------------------- identifier codes a caller supplies (C39)

\* The `ident` arguments of register_var: None, and the code '1'.
SuppliedIdents == {<<>>, << <<"1">> >>}

\* register_var(scope, name, var_type, size, init, ident) with or without an
\* identifier code of the caller's.
RegisterSupplied ==
    \E scope \in Scopes, a \in RegArgs, ident \in SuppliedIdents :
        /\ Len(register_var(Self, scope, a[1], a[2], a[3], a[4], ident).vars) <= MaxVars
        /\ Returned(register_var(Self, scope, a[1], a[2], a[3], a[4], ident),
                    "register_var", 0, "none", FALSE)
        /\ UNCHANGED <<init_timestamp, ncalls>>

NextSupplied == RegisterSupplied \/ Change \/ Flush

SuppliedSpec == Init /\ [][NextSupplied]_vars_all

\* C39: no two registered variables carry the same identifier code, whether
\* the writer assigned it or the caller supplied it, and every value line of
\* the output carries the code of exactly one variable.
C39_IdentifierCodesAreUnique ==
    /\ \A i, j \in 1..Len(vars) : i # j => vars[i].ident # vars[j].ident
    /\ \A n \in 1..Len(ofile) :
          ofile[n].k = "val" =>
              Cardinality({i \in 1..Len(vars) : vars[i].ident = ofile[n].id}) = 1

\* ------------------------------------------------ the types of scopes (C35)

\* The scope paths a caller types: one with variables in it and below it, one
\* below it, one with variables only below it, and one without any.
TypedScopes == {<<"a">>, <<"a", "b">>, <<"b">>, <<"c">>}
TypedScopeTypes == {"task", "begin", "bogus"}

\* The scope paths variables are registered in.
TypedCalls == {<<"a">>, <<"a", "b">>, <<"b", "a">>} \X {"n0"}

RegisterTyped ==
    \E c \in TypedCalls :
        /\ Returned(DoNested(Self, c), "register_var", 0, "none", FALSE)
        /\ UNCHANGED <<init_timestamp, ncalls>>

\* set_scope_type(scope, scope_type); the call is recorded with its arguments.
SetNestedScopeType ==
    \E scope \in TypedScopes, scope_type \in TypedScopeTypes :
        /\ Store(set_scope_type(Self, scope, scope_type))
        /\ last' = [op |-> "set_scope_type", scope |-> scope, scope_type |-> scope_type,
                    res |-> set_scope_type(Self, scope, scope_type).err]
        /\ UNCHANGED <<init_timestamp, ncalls, gen>>

NextTyped == RegisterTyped \/ SetNestedScopeType

TypeSpec == Init /\ [][NextTyped]_vars_all

\* The scopes a header opens, as pairs of the path and the type on its
\* `$scope` line.
Opened(H) ==
    {<<Replay(H, 1, j, [ok |-> TRUE, st |-> <<>>]).st, H[j].s[1]>> :
        j \in {n \in 1..Len(H) : H[n].k = "scope"}}

\* The paths of the scopes with variables, and their ancestors.
Populated == UNION {{SubSeq(p, 1, n) : n \in 1..Len(p)} : p \in DOMAIN scope_var_strs}

\* The type in force for a path: the one set, or the writer's default.
TypeInForce(types, p) == IF p \in DOMAIN types THEN types[p] ELSE "module"

\* The header opens the populated scopes and no other, each with the type in
\* force for exactly its path; a flush() now would write this header.
TypesCarried ==
    registering =>
        /\ {o[1] : o \in Opened(gen_header(Self))} = Populated
        /\ \A o \in Opened(gen_header(Self)) : o[2] = TypeInForce(scope_types, o[1])
        /\ SubSeq(flush(Self, NoneTs).ofile, 1, Len(gen_header(Self))) = gen_header(Self)

\* What a call would do to the types in force: a set_scope_type that returns
\* puts its type in force for its path and changes no other path's; a
\* rejected one, and a register_var, change none.
TypesSet ==
    registering =>
        \A p \in TypedScopes \cup {c[1] : c \in TypedCalls} :
            /\ \A scope \in TypedScopes, scope_type \in TypedScopeTypes :
                  TypeInForce(set_scope_type(Self, scope, scope_type).scope_types, p) =
                      IF scope_type \in SCOPE_TYPES /\ scope = p THEN scope_type
                      ELSE TypeInForce(scope_types, p)
            /\ \A c \in TypedCalls :
                  TypeInForce(DoNested(Self, c).scope_types, p) = TypeInForce(scope_types, p)

\* C35: each `$scope` line of the header carries the type most recently set
\* with set_scope_type for exactly that path, set before or after the scope's
\* variables were registered, and `module`, the default, when none was set; a
\* type set for a path changes neither its ancestors' nor its descendants'
\* lines; and a scope with a type but no variable in or below it has no line.
C35_ScopeLinesCarryTheTypeSet == TypesCarried /\ TypesSet

\* C35, witness: a.b was typed `begin` before its variable was registered, a
\* was typed `begin` and then `task` after its own, b and c were typed and b
\* has a variable only below it; the header would open a as task, a.b as
\* begin, b as begin and b.a as module, and not c.
C35_Witness ==
    /\ registering
    /\ last = [op |-> "set_scope_type", scope |-> <<"a">>, scope_type |-> "task", res |-> ""]
    /\ scope_types = (<<"a">> :> "task" @@ <<"a", "b">> :> "begin" @@ <<"b">> :> "begin"
                      @@ <<"c">> :> "task")
    /\ Opened(gen_header(Self)) = {<< <<"a">>, "task">>, << <<"a", "b">>, "begin">>,
                                   << <<"b">>, "begin">>, << <<"b", "a">>, "module">>}

\* ------------------------------------------------------- free text (C37)

\* Most pieces in the text after a keyword of the model's streams.
MaxPieces == 4

\* The pieces the texts are made of: whitespace, a letter, a `$`, the start of
\* an `$end`, and `$end`.
Pieces == {Encode(<<" ">>), Encode(<<"\n">>), Encode(<<"a">>), Encode(<<"$">>),
           Encode(<<"$", "e">>), Encode(<<"$", "e", "n", "d">>)}

RECURSIVE Texts(_)
\* The texts of at most n pieces.
Texts(n) ==
    IF n = 0 THEN {<<>>}
    ELSE Texts(n - 1) \cup {t \o p : t \in Texts(n - 1), p \in Pieces}

TextKeywords ==
    {Encode(<<"$", "c", "o", "m", "m", "e", "n", "t">>), Encode(<<"$", "d", "a", "t", "e">>),
     Encode(<<"$", "v", "e", "r", "s", "i", "o", "n">>)}

\* list(tokenize(stream)) of a stream that is a keyword, one whitespace byte
\* and a text.
TokenizeText ==
    /\ last.op = "init"
    /\ \E kw \in TextKeywords, ws \in {32, 10}, text \in Texts(MaxPieces), buf_size \in {1, MaxBuf} :
            /\ last' = [op |-> "text", kw |-> kw, text |-> text,
                        res |-> tokenize(kw \o <<ws>> \o text, buf_size, buf_size)]
            /\ UNCHANGED <<check_values, header_keywords, registering, closed, dumping,
                           next_var_id, scope_var_strs, scope_var_names, scope_types, vars,
                           timestamp, last_dumped_ts, ofile, init_timestamp, ncalls, gen>>

TextSpec == Init /\ [][TokenizeText]_vars_all

\* The places of the text where the byte sequence `$end` starts.
Ends(text) ==
    {i \in 1..(Len(text) - 3) : SubSeq(text, i, i + 3) = Encode(<<"$", "e", "n", "d">>)}

FirstEnd(text) == CHOOSE i \in Ends(text) : \A k \in Ends(text) : i <= k

\* The kind of the token of a keyword.
TextKind(kw) ==
    CASE kw = Encode(<<"$", "c", "o", "m", "m", "e", "n", "t">>) -> "COMMENT"
      [] kw = Encode(<<"$", "d", "a", "t", "e">>) -> "DATE"
      [] kw = Encode(<<"$", "v", "e", "r", "s", "i", "o", "n">>) -> "VERSION"

\* C37: the payload of a `$comment`, `$date` or `$version` token is the text
\* after the one whitespace byte that follows the keyword, up to but without
\* the whitespace byte before the first `$end` of the text, a `$` that does
\* not start that `$end` included; it is empty when the text starts with
\* `$end`; and when the byte before the first `$end` is not whitespace a parse
\* error is raised and there is no token.
C37_TextRunsToTheFirstEnd ==
    last.op = "text" /\ Ends(last.text) # {} =>
        LET p == FirstEnd(last.text) IN
        IF p = 1 \/ is_ws(last.text[p - 1])
        THEN /\ Len(last.res.tokens) >= 1
             /\ last.res.tokens[1].kind = TextKind(last.kw)
             /\ last.res.tokens[1].data = SubSeq(last.text, 1, p - 2)
        ELSE last.res.tokens = <<>> /\ last.res.err = "VCDParseError"

\* C37, witness: the text `a$ $end` after `$comment` and its whitespace byte
\* gave the payload `a$`.
C37_Witness ==
    /\ last.op = "text"
    /\ last.kw = Encode(<<"$", "c", "o", "m", "m", "e", "n", "t">>)
    /\ last.text = Encode(<<"a", "$", " ", "$", "e", "n", "d">>)
    /\ last.res.tokens = <<[kind |-> "COMMENT", start |-> <<1, 1>>, end |-> <<1, 16>>,
                            data |-> Encode(<<"a", "$">>)]>>
    /\ last.res.err = ""
====
